---- MODULE Spec2Model ----
(***************************************************************************)
(* A model of src/bootstrap/lib.rs (struct Build): the top-level two-pass  *)
(* execution, the file primitives over a small filesystem, clear_if_dirty, *)
(* the release resolver and the in-tree crate closure.                     *)
(*                                                                         *)
(* Each part has its own specification over the same variables; the        *)
(* variables a part does not use stay at their initial values.             *)
(***************************************************************************)
EXTENDS Integers, Sequences, FiniteSets, TLC

\* ------------------------------------------------------------------ bounds

\* most deferred failures the scheduler records in one run
MaxFailures == 2

\* the clock runs from 1 to MaxTime
MaxTime == 3

\* most merge commits on the branch
MaxMerges == 2

\* most calls of release and beta_prerelease_version in one run
MaxCalls == 3

VARIABLES
    \* Build::build
    cmd,                \* config.cmd, the subcommand
    trigger_path,       \* TRUE when paths[0] is the cargo-metadata trigger path
    dry_run,            \* config.dry_run
    init_dry_run,       \* config.dry_run when build was entered (history)
    pc,                 \* position inside Build::build
    delayed_failures,   \* Build.delayed_failures
    calls,              \* history: config.dry_run at each Builder::execute_cli call
    handlers,           \* history: short-circuit handlers run
    printed,            \* history: failures printed by build
    exit_code,          \* -1 while running, else the process exit status
    \* the filesystem and the file primitives
    fs,                 \* path -> node
    now,                \* the clock new timestamps are taken from
    hardlinks,          \* TRUE when fs::hard_link from src to dst can succeed
    pre_fs,             \* history: fs when the last call was entered
    last,               \* history: the last call (operation, arguments, result)
    fpc,                \* "idle", or how the last call ended
    \* the release resolver
    channel,            \* config.channel
    is_git,             \* rust_info.is_git()
    merges,             \* merge commits since the branch point, as git counts them
    prerelease_version, \* Build.prerelease_version: <<>> for None, <<n>> for Some(n)
    git_calls,          \* history: runs of the git subprocess
    rets,               \* history: the values beta_prerelease_version returned
    released,           \* history: the last call of release and its result
    n_calls,            \* history: calls made
    \* the crate graph and in_tree_crates
    crates,             \* Build.crates: name -> the crate's deps
    profiler,           \* the targets the profiler is enabled for
    llvm,               \* config.llvm_enabled()
    it_root,            \* in_tree_crates: root
    it_target,          \* in_tree_crates: target, <<>> for None, <<t>> for Some(t)
    list,               \* in_tree_crates: the work list
    visited,            \* in_tree_crates: the visited set
    ret,                \* in_tree_crates: the crates reported so far
    ipc,                \* position inside in_tree_crates
    \* the configuration the toolchain and stage queries read
    full_bootstrap,     \* config.full_bootstrap
    hosts,              \* Build.hosts
    build,              \* Build.build, config.build
    target_linker,      \* the targets whose target_config names a linker
    cxx_tools,          \* the keys of Build.cxx
    use_lld,            \* config.use_lld
    host_linker,        \* the targets util::use_host_linker holds of
    tq,                 \* history: the last query, its arguments and outcome
    so,                 \* history: the last two calls of stage_out
    \* the stamp file and read_stamp_file
    stamp_file,         \* <<>> when missing, else <<its bytes>>
    written,            \* history: the records the file was encoded from
    sq,                 \* history: the outcome of the last read_stamp_file
    \* Build::new and what it reads
    rustc_ok,           \* the invocations of the stage0 compiler that succeed
    libdir_out,         \* what `--print target-libdir` prints, as path components
    version_file,       \* src/version: <<>> when missing, else <<its text>>
    version_out,        \* what `--version --verbose` prints, a sequence of lines
    cfg_local_rebuild,  \* config.local_rebuild
    probes_ok,          \* cc_detect::find, sanity::check and metadata::build return
    nb,                 \* history: how Build::new ended and the Build it made
    \* cflags and what it reads
    rust_remap_debuginfo, \* config.rust_remap_debuginfo
    rust_sha,           \* rust_info.sha(): <<>> for None, <<sha>> for Some(sha)
    version_str,        \* Build.version
    cc_tools,           \* Build.cc: target -> the tool's path and arguments
    fq,                 \* history: the last call of cflags and its result
    \* cp_r and cp_filtered side by side
    other               \* what cp_filtered makes of the tree cp_r was called on

buildVars == <<cmd, trigger_path, init_dry_run, pc, delayed_failures,
               calls, handlers, printed, exit_code>>

fsVars == <<fs, now, hardlinks, pre_fs, last, fpc>>

relVars == <<channel, is_git, merges, prerelease_version, git_calls, rets,
             released, n_calls>>

crateVars == <<crates, profiler, llvm, it_root, it_target, list, visited, ret, ipc>>

toolVars == <<full_bootstrap, hosts, build, target_linker, cxx_tools, use_lld,
              host_linker, tq, so>>

stampVars == <<stamp_file, written, sq>>

newVars == <<rustc_ok, libdir_out, version_file, version_out, cfg_local_rebuild,
             probes_ok, nb>>

flagVars == <<rust_remap_debuginfo, rust_sha, version_str, cc_tools, fq>>

pairVars == <<other>>

vars == <<dry_run, buildVars, fsVars, relVars, crateVars, toolVars, stampVars,
          newVars, flagVars, pairVars>>

\* ------------------------------------------------------- Build::build

\* A few values of flags::Subcommand; Format, Clean and Setup are the ones
\* Build::build matches on.
Subcommands == {"Build", "Test", "Format", "Clean", "Setup"}

ShortCircuit == {"Format", "Clean", "Setup"}

\* descriptions of failed commands
FailureMsgs == {"f1", "f2"}

InPass == pc \in {"dry_pass", "real_pass", "only_pass"}

\* BuildDispatch without the early return for Setup
BuildDispatch_SetupFallsThrough ==
    /\ pc = "start"
    /\ IF cmd \in ShortCircuit \ {"Setup"}
         THEN /\ handlers' = Append(handlers, cmd)
              /\ pc' = "returned"
              /\ exit_code' = 0
              /\ UNCHANGED <<dry_run, calls>>
       ELSE IF trigger_path
         THEN /\ pc' = "returned"
              /\ exit_code' = 0
              /\ UNCHANGED <<dry_run, calls, handlers>>
       ELSE IF ~dry_run
         THEN /\ dry_run' = TRUE
              /\ calls' = Append(calls, TRUE)
              /\ pc' = "dry_pass"
              /\ UNCHANGED <<handlers, exit_code>>
         ELSE /\ calls' = Append(calls, dry_run)
              /\ pc' = "only_pass"
              /\ UNCHANGED <<dry_run, handlers, exit_code>>
    /\ UNCHANGED <<cmd, trigger_path, init_dry_run, delayed_failures, printed>>
    /\ UNCHANGED <<fsVars, relVars, crateVars, toolVars, stampVars, newVars, flagVars, pairVars>>

\* BuildDispatch without the forced dry-run pass
BuildDispatch_NoDryPass ==
    /\ pc = "start"
    /\ IF cmd \in ShortCircuit
         THEN /\ handlers' = Append(handlers, cmd)
              /\ pc' = "returned"
              /\ exit_code' = 0
              /\ UNCHANGED <<dry_run, calls>>
       ELSE IF trigger_path
         THEN /\ pc' = "returned"
              /\ exit_code' = 0
              /\ UNCHANGED <<dry_run, calls, handlers>>
         ELSE /\ calls' = Append(calls, dry_run)
              /\ pc' = "only_pass"
              /\ UNCHANGED <<dry_run, handlers, exit_code>>
    /\ UNCHANGED <<cmd, trigger_path, init_dry_run, delayed_failures, printed>>
    /\ UNCHANGED <<fsVars, relVars, crateVars, toolVars, stampVars, newVars, flagVars, pairVars>>

\* Build::build up to its first call of execute_cli: the three early returns,
\* the trigger-path return, then the forced dry-run pass or the only pass.
BuildDispatch ==
    /\ pc = "start"
    /\ IF cmd \in ShortCircuit
         THEN /\ handlers' = Append(handlers, cmd)
              /\ pc' = "returned"
              /\ exit_code' = 0
              /\ UNCHANGED <<dry_run, calls>>
       ELSE IF trigger_path
         THEN /\ pc' = "returned"
              /\ exit_code' = 0
              /\ UNCHANGED <<dry_run, calls, handlers>>
       ELSE IF ~dry_run
         THEN /\ dry_run' = TRUE
              /\ calls' = Append(calls, TRUE)
              /\ pc' = "dry_pass"
              /\ UNCHANGED <<handlers, exit_code>>
         ELSE /\ calls' = Append(calls, dry_run)
              /\ pc' = "only_pass"
              /\ UNCHANGED <<dry_run, handlers, exit_code>>
    /\ UNCHANGED <<cmd, trigger_path, init_dry_run, delayed_failures, printed>>
    /\ UNCHANGED <<fsVars, relVars, crateVars, toolVars, stampVars, newVars, flagVars, pairVars>>

\* The scheduler (external to lib.rs), while a pass runs, records the
\* description of a failed command and carries on.
StepFails ==
    /\ InPass
    /\ Len(delayed_failures) < MaxFailures
    /\ \E f \in FailureMsgs : delayed_failures' = Append(delayed_failures, f)
    /\ UNCHANGED <<cmd, trigger_path, dry_run, init_dry_run, pc, calls, handlers,
                   printed, exit_code>>
    /\ UNCHANGED <<fsVars, relVars, crateVars, toolVars, stampVars, newVars, flagVars, pairVars>>

\* The scheduler aborts the process in the middle of a pass (a fatal step).
StepPanics ==
    /\ InPass
    /\ pc' = "panicked"
    /\ exit_code' = 101
    /\ UNCHANGED <<cmd, trigger_path, dry_run, init_dry_run, delayed_failures,
                   calls, handlers, printed>>
    /\ UNCHANGED <<fsVars, relVars, crateVars, toolVars, stampVars, newVars, flagVars, pairVars>>

\* PassReturns with the deferred failures acted on after the first pass
PassReturns_ChecksBetweenPasses ==
    /\ InPass
    /\ IF pc = "dry_pass" /\ delayed_failures # <<>>
         THEN /\ printed' = delayed_failures
              /\ exit_code' = 1
              /\ pc' = "exited"
              /\ UNCHANGED <<dry_run, calls>>
       ELSE IF pc = "dry_pass"
         THEN /\ dry_run' = FALSE
              /\ calls' = Append(calls, FALSE)
              /\ pc' = "real_pass"
              /\ UNCHANGED <<printed, exit_code>>
         ELSE /\ pc' = "check"
              /\ UNCHANGED <<dry_run, calls, printed, exit_code>>
    /\ UNCHANGED <<cmd, trigger_path, init_dry_run, delayed_failures, handlers>>
    /\ UNCHANGED <<fsVars, relVars, crateVars, toolVars, stampVars, newVars, flagVars, pairVars>>

\* execute_cli returns to Build::build: after the forced dry-run pass the
\* flag is reset and the scheduler is called again; after the last pass
\* build goes on to the deferred failures.
PassReturns ==
    /\ InPass
    /\ IF pc = "dry_pass"
         THEN /\ dry_run' = FALSE
              /\ calls' = Append(calls, FALSE)
              /\ pc' = "real_pass"
         ELSE /\ pc' = "check"
              /\ UNCHANGED <<dry_run, calls>>
    /\ UNCHANGED <<cmd, trigger_path, init_dry_run, delayed_failures, handlers,
                   printed, exit_code>>
    /\ UNCHANGED <<fsVars, relVars, crateVars, toolVars, stampVars, newVars, flagVars, pairVars>>

\* The end of Build::build: print every postponed failure and exit(1), or
\* return.
CheckFailures ==
    /\ pc = "check"
    /\ IF Len(delayed_failures) > 0
         THEN /\ printed' = delayed_failures
              /\ exit_code' = 1
              /\ pc' = "exited"
         ELSE /\ exit_code' = 0
              /\ pc' = "returned"
              /\ UNCHANGED printed
    /\ UNCHANGED <<cmd, trigger_path, dry_run, init_dry_run, delayed_failures,
                   calls, handlers>>
    /\ UNCHANGED <<fsVars, relVars, crateVars, toolVars, stampVars, newVars, flagVars, pairVars>>

\* ------------------------------------------------------- the filesystem

\* Two trees, src and dst, each holding an entry d (with a child f), an entry
\* g and the sentinel .stamp.
Roots == {"src", "dst"}

RelPaths == {<<"d">>, <<"d", "f">>, <<"g">>, <<".stamp">>}

Paths == {<<r>> : r \in Roots} \cup {<<r>> \o p : r \in Roots, p \in RelPaths}

\* the two orders in which a directory listing yields its entries
Orders == {<<".stamp", "d", "f", "g">>, <<"g", "f", "d", ".stamp">>}

\* file contents are short texts, a sequence of characters each
Text1 == <<"a", "b">>
Text2 == <<"b">>

Absent == [kind |-> "none", content |-> <<>>, perm |-> "", mtime |-> 0, ino |-> <<>>]

DirNode == [kind |-> "dir", content |-> <<>>, perm |-> "755", mtime |-> 0, ino |-> <<>>]

\* a regular file; ino names the inode, by the path it was created at
FileNode(c, p, t, i) == [kind |-> "file", content |-> c, perm |-> p, mtime |-> t, ino |-> i]

\* a symbolic link to `target`; links are never followed by the model and
\* point outside the two trees
LinkNode(target, t) ==
    [kind |-> "symlink", content |-> target, perm |-> "777", mtime |-> t, ino |-> <<>>]

parent(p) == SubSeq(p, 1, Len(p) - 1)

IsUnder(p, d) == Len(p) > Len(d) /\ SubSeq(p, 1, Len(d)) = d

kind(f, p) == IF p \in Paths THEN f[p].kind ELSE "none"

\* the directory above the two roots always exists
IsDir(f, p) == p = <<>> \/ kind(f, p) = "dir"

\* the outcome of a call: the filesystem it leaves, whether it returned (ok)
\* or panicked, and its return value where it has one
Ok(f) == [fs |-> f, ok |-> TRUE, ret |-> FALSE]
Panic(f) == [fs |-> f, ok |-> FALSE, ret |-> FALSE]

\* std::fs::remove_file with its error ignored, as at each of its call sites
remove_file(f, p) ==
    IF kind(f, p) \in {"file", "symlink"} THEN [f EXCEPT ![p] = Absent] ELSE f

\* std::fs::remove_dir_all with its error ignored: removes a directory with
\* everything in it, unlinks a symbolic link, fails on anything else
remove_dir_all(f, p) ==
    IF kind(f, p) = "dir"
      THEN [q \in Paths |-> IF q = p \/ IsUnder(q, p) THEN Absent ELSE f[q]]
    ELSE IF kind(f, p) = "symlink" THEN [f EXCEPT ![p] = Absent]
    ELSE f

\* std::fs::create_dir_all: creates p and its missing ancestors; fails when
\* p or an ancestor exists and is no directory
RECURSIVE create_dir_all(_, _)
create_dir_all(f, p) ==
    IF IsDir(f, p) THEN Ok(f)
    ELSE IF kind(f, p) # "none" THEN Panic(f)
    ELSE LET up == create_dir_all(f, parent(p))
         IN  IF up.ok THEN Ok([up.fs EXCEPT ![p] = DirNode]) ELSE up

\* build_helper::mtime: the modification time, zero for a missing file
mtime(f, p) == IF kind(f, p) = "none" THEN 0 ELSE f[p].mtime

\* str::replace: every non-overlapping match of t in s, left to right
RECURSIVE str_replace(_, _, _)
str_replace(s, t, r) ==
    IF Len(s) < Len(t) THEN s
    ELSE IF SubSeq(s, 1, Len(t)) = t
      THEN r \o str_replace(SubSeq(s, Len(t) + 1, Len(s)), t, r)
    ELSE <<Head(s)>> \o str_replace(Tail(s), t, r)

RECURSIVE apply_replacements(_, _)
apply_replacements(s, reps) ==
    IF reps = <<>> THEN s
    ELSE apply_replacements(str_replace(s, Head(reps)[1], Head(reps)[2]), Tail(reps))

\* ------------------------------------------------------- file primitives

\* Build::copy, after its dry-run check
copy_body(f, src, dst) ==
    IF src = dst THEN Ok(f)
    ELSE LET f1 == remove_file(f, dst)
             m == IF src \in Paths THEN f1[src] ELSE Absent   \* symlink_metadata
             free == f1[dst].kind = "none" /\ IsDir(f1, parent(dst))
         IN  IF m.kind = "none" THEN Panic(f1)
             ELSE IF m.kind = "symlink"
               THEN IF free
                      THEN Ok([f1 EXCEPT ![dst] = LinkNode(m.content, now)])
                      ELSE Panic(f1)
             ELSE IF hardlinks /\ m.kind = "file" /\ free
               THEN Ok([f1 EXCEPT ![dst] = m])
             ELSE IF m.kind = "file" /\ free
               \* fs::copy, set_permissions, set_file_times
               THEN Ok([f1 EXCEPT ![dst] = FileNode(m.content, m.perm, m.mtime, dst)])
             ELSE Panic(f1)

\* copy without the return for src = dst
copy_NoSamePathCheck(f, src, dst) ==
    IF dry_run THEN Ok(f)
    ELSE LET f1 == remove_file(f, dst)
             m == IF src \in Paths THEN f1[src] ELSE Absent
             free == f1[dst].kind = "none" /\ IsDir(f1, parent(dst))
         IN  IF m.kind = "none" THEN Panic(f1)
             ELSE IF m.kind = "symlink"
               THEN IF free
                      THEN Ok([f1 EXCEPT ![dst] = LinkNode(m.content, now)])
                      ELSE Panic(f1)
             ELSE IF hardlinks /\ m.kind = "file" /\ free
               THEN Ok([f1 EXCEPT ![dst] = m])
             ELSE IF m.kind = "file" /\ free
               THEN Ok([f1 EXCEPT ![dst] = FileNode(m.content, m.perm, m.mtime, dst)])
             ELSE Panic(f1)

\* copy without its dry-run check
copy_NoDryRunCheck(f, src, dst) == copy_body(f, src, dst)

\* Build::copy
copy(f, src, dst) ==
    IF dry_run THEN Ok(f) ELSE copy_body(f, src, dst)

\* Build::replace_in_file; the rewrite reaches every name of the inode
replace_in_file(f, path, replacements) ==
    IF dry_run THEN Ok(f)
    ELSE IF kind(f, path) # "file" THEN Panic(f)
    ELSE LET new == apply_replacements(f[path].content, replacements)
         IN  Ok([q \in Paths |->
                   IF f[q].kind = "file" /\ f[q].ino = f[path].ino
                     THEN [f[q] EXCEPT !.content = new, !.mtime = now]
                     ELSE f[q]])

\* Build::read_dir: the listing can be read
read_dir_ok(f, dir) == kind(f, dir) = "dir"

\* Build::cp_r: one entry of the listing `snap` of src after another, in the
\* order ord; a directory is created and descended into, anything else is
\* copied
RECURSIVE cp_r(_, _, _, _), cp_r_entries(_, _, _, _, _, _)
cp_r_entries(f, snap, src, dst, ord, i) ==
    IF i > Len(ord) THEN Ok(f)
    ELSE LET path == Append(src, ord[i])
             to == Append(dst, ord[i])
         IN  IF kind(snap, path) = "none"
               THEN cp_r_entries(f, snap, src, dst, ord, i + 1)
             ELSE LET r == IF snap[path].kind = "dir"
                             THEN LET c == create_dir_all(f, to)
                                  IN  IF c.ok THEN cp_r(c.fs, path, to, ord) ELSE c
                             ELSE copy(remove_file(f, to), path, to)
                  IN  IF r.ok THEN cp_r_entries(r.fs, snap, src, dst, ord, i + 1) ELSE r

cp_r_body(f, src, dst, ord) ==
    IF ~read_dir_ok(f, src) THEN Panic(f)
    ELSE cp_r_entries(f, f, src, dst, ord, 1)

cp_r(f, src, dst, ord) ==
    IF dry_run THEN Ok(f) ELSE cp_r_body(f, src, dst, ord)

\* Build::create_dir
create_dir(f, dir) == IF dry_run THEN Ok(f) ELSE create_dir_all(f, dir)

\* Build::recurse_: accept is the set of relative paths the filter returns
\* true for
RECURSIVE recurse_(_, _, _, _, _, _), recurse_entries(_, _, _, _, _, _, _, _)
recurse_entries(f, snap, src, dst, relative, accept, ord, i) ==
    IF i > Len(ord) THEN Ok(f)
    ELSE LET path == Append(src, ord[i])
             to == Append(dst, ord[i])
             rel == Append(relative, ord[i])
         IN  IF kind(snap, path) = "none" \/ rel \notin accept
               THEN recurse_entries(f, snap, src, dst, relative, accept, ord, i + 1)
             ELSE LET r == IF snap[path].kind = "dir"
                             THEN LET c == create_dir(remove_dir_all(f, to), to)
                                  IN  IF c.ok
                                        THEN recurse_(c.fs, path, to, rel, accept, ord)
                                        ELSE c
                             ELSE copy(remove_file(f, to), path, to)
                  IN  IF r.ok
                        THEN recurse_entries(r.fs, snap, src, dst, relative, accept,
                                             ord, i + 1)
                        ELSE r

recurse_(f, src, dst, relative, accept, ord) ==
    IF read_dir_ok(f, src)
      THEN recurse_entries(f, f, src, dst, relative, accept, ord, 1)
    ELSE IF dry_run THEN Ok(f)      \* read_dir: an empty listing in a dry run
    ELSE Panic(f)

\* cp_filtered that merges into the directories dst already has, as cp_r does
cp_filtered_MergesIntoOldDirs(f, src, dst, accept, ord) == cp_r(f, src, dst, ord)

\* cp_filtered with a filter that is never consulted
cp_filtered_IgnoresFilter(f, src, dst, accept, ord) ==
    recurse_(f, src, dst, <<>>, RelPaths, ord)

\* Build::cp_filtered
cp_filtered(f, src, dst, accept, ord) == recurse_(f, src, dst, <<>>, accept, ord)

\* Build::install, for a source that is no symbolic link
install_body(f, src, dstdir, perms) ==
    LET dst == Append(dstdir, src[Len(src)])
        c == create_dir_all(f, dstdir)
    IN  IF ~c.ok THEN c
        ELSE LET f1 == remove_file(c.fs, dst)
                 m == f1[src]
             IN  IF m.kind = "none" THEN Panic(f1)                \* File not found
                 ELSE IF m.kind = "file" /\ f1[dst].kind = "none"
                   \* fs::copy, set_permissions, set_file_times, chmod
                   THEN Ok([f1 EXCEPT ![dst] = FileNode(m.content, perms, m.mtime, dst)])
                 ELSE Panic(f1)

install(f, src, dstdir, perms) ==
    IF dry_run THEN Ok(f) ELSE install_body(f, src, dstdir, perms)

\* File::create: creates or truncates
file_create(f, p) ==
    IF kind(f, p) = "file"
      THEN Ok([f EXCEPT ![p] = [@ EXCEPT !.content = <<>>, !.mtime = now]])
    ELSE IF kind(f, p) = "none" /\ IsDir(f, parent(p))
      THEN Ok([f EXCEPT ![p] = FileNode(<<>>, "644", now, p)])
    ELSE Panic(f)

\* clear_if_dirty without the remove_dir_all
clear_if_dirty_KeepsContents(f, dir, input) ==
    LET stamp == Append(dir, ".stamp")
        dirty == mtime(f, stamp) < mtime(f, input)
    IN  IF ~dirty /\ kind(f, stamp) # "none"
          THEN [fs |-> f, ok |-> TRUE, ret |-> FALSE]
        ELSE LET c == create_dir_all(f, dir)
                 s == IF c.ok THEN file_create(c.fs, stamp) ELSE c
             IN  [fs |-> s.fs, ok |-> s.ok, ret |-> dirty]

\* clear_if_dirty with <= for <
clear_if_dirty_DirtyWhenEqual(f, dir, input) ==
    LET stamp == Append(dir, ".stamp")
        dirty == mtime(f, stamp) <= mtime(f, input)
        f1 == IF dirty THEN remove_dir_all(f, dir) ELSE f
    IN  IF ~dirty /\ kind(f, stamp) # "none"
          THEN [fs |-> f, ok |-> TRUE, ret |-> FALSE]
        ELSE LET c == create_dir_all(f1, dir)
                 s == IF c.ok THEN file_create(c.fs, stamp) ELSE c
             IN  [fs |-> s.fs, ok |-> s.ok, ret |-> dirty]

\* clear_if_dirty without the File::create
clear_if_dirty_NoStamp(f, dir, input) ==
    LET stamp == Append(dir, ".stamp")
        dirty == mtime(f, stamp) < mtime(f, input)
        f1 == IF dirty THEN remove_dir_all(f, dir) ELSE f
    IN  IF ~dirty /\ kind(f, stamp) # "none"
          THEN [fs |-> f, ok |-> TRUE, ret |-> FALSE]
        ELSE LET c == create_dir_all(f1, dir)
             IN  [fs |-> c.fs, ok |-> c.ok, ret |-> dirty]

\* Build::clear_if_dirty
clear_if_dirty(f, dir, input) ==
    LET stamp == Append(dir, ".stamp")
        dirty == mtime(f, stamp) < mtime(f, input)
        f1 == IF dirty THEN remove_dir_all(f, dir) ELSE f
    IN  IF ~dirty /\ kind(f, stamp) # "none"
          THEN [fs |-> f, ok |-> TRUE, ret |-> FALSE]
        ELSE LET c == create_dir_all(f1, dir)
                 s == IF c.ok THEN file_create(c.fs, stamp) ELSE c
             IN  [fs |-> s.fs, ok |-> s.ok, ret |-> dirty]

\* ------------------------------------------------ calls of the primitives

Call(o, s, d) ==
    [op |-> o, src |-> s, dst |-> d, accept |-> {}, ord |-> <<>>, perms |-> "",
     reps |-> <<>>]

\* a call ends: the filesystem it leaves, and whether it returned or panicked
Ends(c, r) ==
    /\ fs' = r.fs
    /\ pre_fs' = fs
    /\ last' = [call |-> c, ret |-> r.ret]
    /\ fpc' = IF r.ok THEN "returned" ELSE "panicked"
    /\ UNCHANGED <<now, hardlinks, dry_run, buildVars, relVars, crateVars, toolVars, stampVars, newVars, flagVars, pairVars>>

\* the entries of a tree the calls are made on
Entries == RelPaths \ {<<".stamp">>}

\* the directories cp_r and cp_filtered are called on
Dirs == {<<>>, <<"d">>}

\* the filters of cp_filtered, each the set of relative paths it accepts
Filters == SUBSET Entries

Perms == {"644", "755"}

Replacements == {<< <<(<<"a">>), (<<"b">>)>> >>,
                 << <<(<<"b">>), (<<"a", "a">>)>>, <<(<<"a">>), (<<>>)>> >>}

Copy ==
    /\ fpc = "idle"
    /\ \E s \in Entries, d \in Entries :
          Ends(Call("copy", <<"src">> \o s, <<"dst">> \o d),
               copy(fs, <<"src">> \o s, <<"dst">> \o d))

\* copy with the source as its destination
CopyOnto ==
    /\ fpc = "idle"
    /\ \E d \in Entries :
          Ends(Call("copy", <<"dst">> \o d, <<"dst">> \o d),
               copy(fs, <<"dst">> \o d, <<"dst">> \o d))

CpR ==
    /\ fpc = "idle"
    /\ \E p \in Dirs, o \in Orders :
          Ends([Call("cp_r", <<"src">> \o p, <<"dst">> \o p) EXCEPT !.ord = o],
               cp_r(fs, <<"src">> \o p, <<"dst">> \o p, o))

CpFiltered ==
    /\ fpc = "idle"
    /\ \E p \in Dirs, a \in Filters, o \in Orders :
          Ends([Call("cp_filtered", <<"src">> \o p, <<"dst">> \o p)
                  EXCEPT !.accept = a, !.ord = o],
               cp_filtered(fs, <<"src">> \o p, <<"dst">> \o p, a, o))

\* install of an entry of src into the directory of dst of the same place
Install ==
    /\ fpc = "idle"
    /\ \E s \in Entries, m \in Perms :
          /\ kind(fs, <<"src">> \o s) # "symlink"
          /\ Ends([Call("install", <<"src">> \o s, <<"dst">> \o parent(s))
                     EXCEPT !.perms = m],
                  install(fs, <<"src">> \o s, <<"dst">> \o parent(s), m))

ReplaceInFile ==
    /\ fpc = "idle"
    /\ \E d \in Entries, reps \in Replacements :
          Ends([Call("replace_in_file", <<"dst">> \o d, <<"dst">> \o d)
                  EXCEPT !.reps = reps],
               replace_in_file(fs, <<"dst">> \o d, reps))

\* what an entry of the source tree starts as, and one of the other tree
SrcEntry(p) == {Absent, DirNode, FileNode(Text1, "755", 1, p), LinkNode(<<"t">>, 1)}

DstEntry(p) == {Absent, DirNode, FileNode(Text2, "644", 1, p)}

\* a tree with the entries d, d/f and g as given
Tree(r, d, f, g) ==
    [p \in {<<r>>} \cup {<<r>> \o q : q \in RelPaths} |->
        IF p = <<r>> THEN DirNode
        ELSE IF p = <<r, "d">> THEN d
        ELSE IF p = <<r, "d", "f">> THEN f
        ELSE IF p = <<r, "g">> THEN g
        ELSE Absent]

\* the crates of the workspace (the keys of Build.crates)
CrateNames == {"root", "a", "b", "c", "build_helper", "profiler_builtins",
               "rustc_codegen_llvm"}

IdleCrates ==
    /\ crates = [n \in CrateNames |-> {}]
    /\ profiler = {}
    /\ llvm = FALSE
    /\ it_root = "root"
    /\ it_target = <<>>
    /\ list = <<>>
    /\ visited = {}
    /\ ret = <<>>
    /\ ipc = "idle"

IdleRelease ==
    /\ channel = "dev"
    /\ is_git = FALSE
    /\ merges = 0
    /\ prerelease_version = <<>>
    /\ git_calls = 0
    /\ rets = <<>>
    /\ released = [num |-> "", str |-> ""]
    /\ n_calls = 0

IdleFs ==
    /\ fs = [p \in Paths |-> IF Len(p) = 1 THEN DirNode ELSE Absent]
    /\ now = 1
    /\ hardlinks = FALSE
    /\ pre_fs = fs
    /\ last = [call |-> Call("none", <<>>, <<>>), ret |-> FALSE]
    /\ fpc = "idle"

IdleBuild ==
    /\ cmd = "Build"
    /\ trigger_path = FALSE
    /\ init_dry_run = dry_run
    /\ pc = "start"
    /\ delayed_failures = <<>>
    /\ calls = <<>>
    /\ handlers = <<>>
    /\ printed = <<>>
    /\ exit_code = -1

IdleTool ==
    /\ full_bootstrap = FALSE
    /\ hosts = {}
    /\ build = <<>>
    /\ target_linker = {}
    /\ cxx_tools = {}
    /\ use_lld = FALSE
    /\ host_linker = {}
    /\ tq = [op |-> "none"]
    /\ so = <<>>

IdleStamp ==
    /\ stamp_file = <<>>
    /\ written = <<>>
    /\ sq = [status |-> "none", val |-> <<>>]

IdleNew ==
    /\ rustc_ok = {}
    /\ libdir_out = <<>>
    /\ version_file = <<>>
    /\ version_out = <<>>
    /\ cfg_local_rebuild = FALSE
    /\ probes_ok = TRUE
    /\ nb = [status |-> "none"]

IdleFlags ==
    /\ rust_remap_debuginfo = FALSE
    /\ rust_sha = <<>>
    /\ version_str = ""
    /\ cc_tools = <<>>
    /\ fq = [status |-> "none"]

IdlePair ==
    other = [status |-> "none"]

InitFs ==
    /\ dry_run \in BOOLEAN
    /\ hardlinks \in BOOLEAN
    /\ now = 2
    /\ \E sd \in SrcEntry(<<"src", "d">>), sf \in SrcEntry(<<"src", "d", "f">>),
          sg \in SrcEntry(<<"src", "g">>),
          dd \in DstEntry(<<"dst", "d">>), df \in DstEntry(<<"dst", "d", "f">>),
          dg \in DstEntry(<<"dst", "g">>) :
          /\ sd.kind # "dir" => sf = Absent
          /\ dd.kind # "dir" => df = Absent
          /\ fs = Tree("src", sd, sf, sg) @@ Tree("dst", dd, df, dg)
    /\ pre_fs = fs
    /\ last = [call |-> Call("none", <<>>, <<>>), ret |-> FALSE]
    /\ fpc = "idle"
    /\ IdleBuild
    /\ IdleRelease
    /\ IdleCrates
    /\ IdleTool
    /\ IdleStamp
    /\ IdleNew
    /\ IdleFlags
    /\ IdlePair

NextFs ==
    \/ Copy
    \/ CopyOnto
    \/ CpR
    \/ CpFiltered
    \/ Install
    \/ ReplaceInFile

SpecFs == InitFs /\ [][NextFs]_vars

\* ----------------------------------------------------- copy, called twice

\* time passes after a call of copy has returned
Later ==
    /\ fpc = "returned"
    /\ last.call.op = "copy"
    /\ now < MaxTime
    /\ now' = now + 1
    /\ UNCHANGED <<fs, hardlinks, pre_fs, last, fpc>>
    /\ UNCHANGED <<dry_run, buildVars, relVars, crateVars, toolVars, stampVars, newVars, flagVars, pairVars>>

\* copy is called again with the arguments of the call that has returned;
\* pre_fs keeps what the first call left
CopyAgain ==
    /\ fpc = "returned"
    /\ last.call.op = "copy"
    /\ LET r == copy(fs, last.call.src, last.call.dst)
       IN  /\ fs' = r.fs
           /\ pre_fs' = fs
           /\ fpc' = IF r.ok THEN "returned again" ELSE "panicked again"
    /\ UNCHANGED <<now, hardlinks, last>>
    /\ UNCHANGED <<dry_run, buildVars, relVars, crateVars, toolVars, stampVars, newVars, flagVars, pairVars>>

NextCopy ==
    \/ Copy
    \/ CopyOnto
    \/ Later
    \/ CopyAgain

SpecCopy == InitFs /\ [][NextCopy]_vars

\* ------------------------------------------- cp_r beside cp_filtered

\* the filter that returns true for every path
AcceptAll == RelPaths \cup {<<"f">>}

\* cp_r is called; other is what cp_filtered, with a filter that accepts
\* every path, makes of the same tree
CpRBesideCpFiltered ==
    /\ fpc = "idle"
    /\ \E p \in Dirs, o \in Orders :
          LET r == cp_r(fs, <<"src">> \o p, <<"dst">> \o p, o)
              a == cp_filtered(fs, <<"src">> \o p, <<"dst">> \o p, AcceptAll, o)
          IN  /\ fs' = r.fs
              /\ pre_fs' = fs
              /\ last' = [call |-> [Call("cp_r", <<"src">> \o p, <<"dst">> \o p)
                                      EXCEPT !.ord = o],
                          ret |-> FALSE]
              /\ fpc' = IF r.ok THEN "returned" ELSE "panicked"
              /\ other' = [status |-> IF a.ok THEN "returned" ELSE "panicked",
                           fs |-> a.fs]
    /\ UNCHANGED <<now, hardlinks>>
    /\ UNCHANGED <<dry_run, buildVars, relVars, crateVars, toolVars, stampVars,
                   newVars, flagVars>>

NextMirror == CpRBesideCpFiltered

SpecMirror == InitFs /\ [][NextMirror]_vars

\* ------------------------------------------------ calls of clear_if_dirty

\* the directory clear_if_dirty is called on, its sentinel, and the input
ClearDir == <<"dst">>
Stamp == <<"dst", ".stamp">>
Input == <<"src", "g">>

\* the entries other than the sentinel that the directory can hold
Artifacts == {<<"dst", "d">>, <<"dst", "d", "f">>, <<"dst", "g">>}

\* an action of the environment: it ends the "just returned" state of a call
Env(f, t) ==
    /\ fs' = f
    /\ now' = t
    /\ fpc' = "idle"
    /\ UNCHANGED <<pre_fs, last, hardlinks, dry_run, buildVars, relVars, crateVars, toolVars, stampVars, newVars, flagVars, pairVars>>

\* time passes
Tick ==
    /\ now < MaxTime
    /\ Env(fs, now + 1)

\* the input is written: its modification time becomes the current time
TouchInput ==
    /\ kind(fs, Input) \in {"none", "file"}
    /\ Env([fs EXCEPT ![Input] = FileNode(Text1, "644", now, Input)], now)

\* the directory is made by someone else, or a step puts an artifact in it
PutEntry ==
    \E p \in {ClearDir} \cup Artifacts :
        /\ kind(fs, p) = "none"
        /\ IsDir(fs, parent(p))
        /\ Env([fs EXCEPT ![p] = IF p \in {ClearDir, <<"dst", "d">>}
                                    THEN DirNode
                                    ELSE FileNode(Text2, "644", now, p)], now)

ClearIfDirty ==
    /\ fpc # "panicked"
    /\ Ends(Call("clear_if_dirty", Input, ClearDir), clear_if_dirty(fs, ClearDir, Input))

InitClear ==
    /\ dry_run = FALSE
    /\ hardlinks = FALSE
    /\ now = 1
    /\ fs = [p \in Paths |-> IF p = <<"src">> THEN DirNode ELSE Absent]
    /\ pre_fs = fs
    /\ last = [call |-> Call("none", <<>>, <<>>), ret |-> FALSE]
    /\ fpc = "idle"
    /\ IdleBuild
    /\ IdleRelease
    /\ IdleCrates
    /\ IdleTool
    /\ IdleStamp
    /\ IdleNew
    /\ IdleFlags
    /\ IdlePair

NextClear ==
    \/ Tick
    \/ TouchInput
    \/ PutEntry
    \/ ClearIfDirty

SpecClear == InitClear /\ [][NextClear]_vars

\* ------------------------------------------- clear_if_dirty, called twice

\* the input is written with a modification time ahead of the clock: by a
\* machine whose clock is ahead, from an archive, or with utimes
InputFromAhead ==
    /\ now < MaxTime
    /\ kind(fs, Input) \in {"none", "file"}
    /\ Env([fs EXCEPT ![Input] = FileNode(Text1, "644", now + 1, Input)], now)

\* between two calls, a step puts an artifact in the directory
PutBetween ==
    /\ fpc = "returned"
    /\ last.call.op = "clear_if_dirty"
    /\ \E p \in Artifacts :
          /\ kind(fs, p) = "none"
          /\ IsDir(fs, parent(p))
          /\ fs' = [fs EXCEPT ![p] = IF p = <<"dst", "d">>
                                       THEN DirNode
                                       ELSE FileNode(Text2, "644", now, p)]
    /\ UNCHANGED <<now, hardlinks, pre_fs, last, fpc>>
    /\ UNCHANGED <<dry_run, buildVars, relVars, crateVars, toolVars, stampVars,
                   newVars, flagVars, pairVars>>

\* between two calls, time passes
TimeBetween ==
    /\ fpc = "returned"
    /\ last.call.op = "clear_if_dirty"
    /\ now < MaxTime
    /\ now' = now + 1
    /\ UNCHANGED <<fs, hardlinks, pre_fs, last, fpc>>
    /\ UNCHANGED <<dry_run, buildVars, relVars, crateVars, toolVars, stampVars,
                   newVars, flagVars, pairVars>>

\* clear_if_dirty is called again with the same arguments, the input not
\* having changed since the call that returned
ClearAgain ==
    /\ fpc = "returned"
    /\ last.call.op = "clear_if_dirty"
    /\ LET r == clear_if_dirty(fs, ClearDir, Input)
       IN  /\ fs' = r.fs
           /\ pre_fs' = fs
           /\ last' = [call |-> last.call, ret |-> r.ret]
           /\ fpc' = IF r.ok THEN "returned again" ELSE "panicked again"
    /\ UNCHANGED <<now, hardlinks>>
    /\ UNCHANGED <<dry_run, buildVars, relVars, crateVars, toolVars, stampVars,
                   newVars, flagVars, pairVars>>

NextClearTwice ==
    \/ Tick
    \/ TouchInput
    \/ InputFromAhead
    \/ PutEntry
    \/ ClearIfDirty
    \/ PutBetween
    \/ TimeBetween
    \/ ClearAgain

SpecClearTwice == InitClear /\ [][NextClearTwice]_vars

\* ------------------------------------------------ the release resolver

Channels == {"stable", "beta", "nightly", "dev", "anything-else"}

Versions == {"1.2.3", "1.50.0"}

\* beta_prerelease_version without the store into the cache
beta_prerelease_version_NoCache ==
    IF prerelease_version # <<>>
      THEN [ret |-> prerelease_version[1], cache |-> prerelease_version, git |-> 0]
      ELSE [ret |-> merges, cache |-> prerelease_version, git |-> 1]

\* Build::beta_prerelease_version: the value returned, the cache it leaves
\* and whether git was run. The output of `git rev-list --count --merges`
\* is taken as the number it parses to.
beta_prerelease_version ==
    IF prerelease_version # <<>>
      THEN [ret |-> prerelease_version[1], cache |-> prerelease_version, git |-> 0]
      ELSE [ret |-> merges, cache |-> <<merges>>, git |-> 1]

\* release with any channel but stable, beta and nightly treated as nightly
release_UnknownIsNightly(num) ==
    IF channel = "stable" THEN [str |-> num, beta |-> <<>>]
    ELSE IF channel = "beta"
      THEN IF is_git
             THEN LET b == beta_prerelease_version
                  IN  [str |-> num \o "-beta." \o ToString(b.ret), beta |-> <<b>>]
             ELSE [str |-> num \o "-beta", beta |-> <<>>]
    ELSE [str |-> num \o "-nightly", beta |-> <<>>]

\* Build::release: the release string, and the call of
\* beta_prerelease_version it makes, if any
release(num) ==
    IF channel = "stable" THEN [str |-> num, beta |-> <<>>]
    ELSE IF channel = "beta"
      THEN IF is_git
             THEN LET b == beta_prerelease_version
                  IN  [str |-> num \o "-beta." \o ToString(b.ret), beta |-> <<b>>]
             ELSE [str |-> num \o "-beta", beta |-> <<>>]
    ELSE IF channel = "nightly" THEN [str |-> num \o "-nightly", beta |-> <<>>]
    ELSE [str |-> num \o "-dev", beta |-> <<>>]

\* a call of release
Release ==
    /\ n_calls < MaxCalls
    /\ \E num \in Versions :
          LET r == release(num)
          IN  /\ released' = [num |-> num, str |-> r.str]
              /\ IF r.beta = <<>>
                   THEN UNCHANGED <<prerelease_version, git_calls, rets>>
                   ELSE /\ prerelease_version' = r.beta[1].cache
                        /\ git_calls' = git_calls + r.beta[1].git
                        /\ rets' = Append(rets, r.beta[1].ret)
    /\ n_calls' = n_calls + 1
    /\ UNCHANGED <<channel, is_git, merges>>
    /\ UNCHANGED <<dry_run, buildVars, fsVars, crateVars, toolVars, stampVars, newVars, flagVars, pairVars>>

\* a call of beta_prerelease_version, in a git checkout (git fails and the
\* process aborts elsewhere)
BetaPrereleaseVersion ==
    /\ n_calls < MaxCalls
    /\ is_git
    /\ LET b == beta_prerelease_version
       IN  /\ prerelease_version' = b.cache
           /\ git_calls' = git_calls + b.git
           /\ rets' = Append(rets, b.ret)
    /\ n_calls' = n_calls + 1
    /\ UNCHANGED <<channel, is_git, merges, released>>
    /\ UNCHANGED <<dry_run, buildVars, fsVars, crateVars, toolVars, stampVars, newVars, flagVars, pairVars>>

\* a merge commit lands on the branch while the process runs
MergeLands ==
    /\ merges < MaxMerges
    /\ merges' = merges + 1
    /\ UNCHANGED <<channel, is_git, prerelease_version, git_calls, rets, released,
                   n_calls>>
    /\ UNCHANGED <<dry_run, buildVars, fsVars, crateVars, toolVars, stampVars, newVars, flagVars, pairVars>>

InitRelease ==
    /\ channel \in Channels
    /\ is_git \in BOOLEAN
    /\ merges \in 0 .. MaxMerges
    /\ prerelease_version = <<>>
    /\ git_calls = 0
    /\ rets = <<>>
    /\ released = [num |-> "", str |-> ""]
    /\ n_calls = 0
    /\ dry_run = FALSE
    /\ IdleBuild
    /\ IdleFs
    /\ IdleCrates
    /\ IdleTool
    /\ IdleStamp
    /\ IdleNew
    /\ IdleFlags
    /\ IdlePair

NextRelease ==
    \/ Release
    \/ BetaPrereleaseVersion
    \/ MergeLands

SpecRelease == InitRelease /\ [][NextRelease]_vars

\* ------------------------------------------------ the crate graph

\* the dependencies each crate may have; "ext" is no crate of the workspace
MayDependOn ==
    [n \in CrateNames |->
        CASE n = "root" -> {"a", "b", "ext", "build_helper"}
          [] n = "a" -> {"c", "a"}
          [] n = "b" -> {"c", "profiler_builtins"}
          [] n = "c" -> {"root", "rustc_codegen_llvm"}
          [] n = "build_helper" -> {"b"}
          [] OTHER -> {}]

Targets == {"t1", "t2"}

\* the roots in_tree_crates is called on
RootNames == {"root", "build_helper"}

\* the two orders in which the iteration of a HashSet of names yields them
DepOrders ==
    {<<"a", "b", "c", "root", "build_helper", "profiler_builtins",
       "rustc_codegen_llvm", "ext">>,
     <<"ext", "rustc_codegen_llvm", "profiler_builtins", "build_helper", "root",
       "c", "b", "a">>}

\* Config::profiler_enabled, Config::any_profiler_enabled, Config::llvm_enabled
profiler_enabled(t) == t \in profiler
any_profiler_enabled == profiler # {}
llvm_enabled == llvm

\* keeps without the test of build_helper
keeps_BuildHelperToo(dep) ==
    /\ \/ dep # "profiler_builtins"
       \/ IF it_target # <<>> THEN profiler_enabled(it_target[1])
                              ELSE any_profiler_enabled
    /\ dep # "rustc_codegen_llvm" \/ llvm_enabled

\* keeps without the test of rustc_codegen_llvm
keeps_AlwaysLlvm(dep) ==
    /\ dep # "build_helper"
    /\ \/ dep # "profiler_builtins"
       \/ IF it_target # <<>> THEN profiler_enabled(it_target[1])
                              ELSE any_profiler_enabled

\* the condition under which a dependency found in the crate map and not
\* seen before is pushed on the work list
keeps(dep) ==
    /\ dep # "build_helper"
    /\ \/ dep # "profiler_builtins"
       \/ IF it_target # <<>> THEN profiler_enabled(it_target[1])
                              ELSE any_profiler_enabled
    /\ dep # "rustc_codegen_llvm" \/ llvm_enabled

\* push_deps with no visited set: a dependency is pushed each time it is met
RECURSIVE push_deps_NoVisitedSet(_, _, _, _, _)
push_deps_NoVisitedSet(deps, ord, i, l, v) ==
    IF i > Len(ord) THEN [list |-> l, visited |-> v]
    ELSE LET dep == ord[i]
         IN  IF dep \notin deps \/ dep \notin DOMAIN crates
               THEN push_deps_NoVisitedSet(deps, ord, i + 1, l, v)
             ELSE IF keeps(dep)
               THEN push_deps_NoVisitedSet(deps, ord, i + 1, Append(l, dep), v)
             ELSE push_deps_NoVisitedSet(deps, ord, i + 1, l, v)

\* the loop over krate.deps, in the order ord from its i-th name on: the
\* work list and the visited set it leaves
RECURSIVE push_deps(_, _, _, _, _)
push_deps(deps, ord, i, l, v) ==
    IF i > Len(ord) THEN [list |-> l, visited |-> v]
    ELSE LET dep == ord[i]
         IN  IF dep \notin deps \/ dep \notin DOMAIN crates
               THEN push_deps(deps, ord, i + 1, l, v)
             ELSE IF dep \notin v /\ keeps(dep)
               THEN push_deps(deps, ord, i + 1, Append(l, dep), v \cup {dep})
             ELSE push_deps(deps, ord, i + 1, l, v \cup {dep})

\* in_tree_crates is entered
InTreeCrates ==
    /\ ipc = "idle"
    /\ \E r \in RootNames, t \in {<<>>} \cup {<<x>> : x \in Targets} :
          /\ it_root' = r
          /\ it_target' = t
          /\ list' = <<r>>
    /\ visited' = {}
    /\ ret' = <<>>
    /\ ipc' = "loop"
    /\ UNCHANGED <<crates, profiler, llvm>>
    /\ UNCHANGED <<dry_run, buildVars, fsVars, relVars, toolVars, stampVars, newVars, flagVars, pairVars>>

\* one turn of the loop: pop a crate, report it, push its dependencies
Visit ==
    /\ ipc = "loop"
    /\ list # <<>>
    /\ \E ord \in DepOrders :
          LET krate == list[Len(list)]
              p == push_deps(crates[krate], ord, 1, SubSeq(list, 1, Len(list) - 1),
                             visited)
          IN  /\ ret' = Append(ret, krate)
              /\ list' = p.list
              /\ visited' = p.visited
    /\ UNCHANGED <<crates, profiler, llvm, it_root, it_target, ipc>>
    /\ UNCHANGED <<dry_run, buildVars, fsVars, relVars, toolVars, stampVars, newVars, flagVars, pairVars>>

\* the work list is empty: in_tree_crates returns ret
InTreeCratesReturns ==
    /\ ipc = "loop"
    /\ list = <<>>
    /\ ipc' = "done"
    /\ UNCHANGED <<crates, profiler, llvm, it_root, it_target, list, visited, ret>>
    /\ UNCHANGED <<dry_run, buildVars, fsVars, relVars, toolVars, stampVars, newVars, flagVars, pairVars>>

InitCrates ==
    /\ \E dr \in SUBSET MayDependOn["root"], da \in SUBSET MayDependOn["a"],
          db \in SUBSET MayDependOn["b"], dc \in SUBSET MayDependOn["c"],
          dh \in SUBSET MayDependOn["build_helper"] :
          crates = [n \in CrateNames |->
                       CASE n = "root" -> dr
                         [] n = "a" -> da
                         [] n = "b" -> db
                         [] n = "c" -> dc
                         [] n = "build_helper" -> dh
                         [] OTHER -> {}]
    /\ profiler \in {{}, {"t1"}}
    /\ llvm \in BOOLEAN
    /\ it_root = "root"
    /\ it_target = <<>>
    /\ list = <<>>
    /\ visited = {}
    /\ ret = <<>>
    /\ ipc = "idle"
    /\ dry_run = FALSE
    /\ IdleBuild
    /\ IdleFs
    /\ IdleRelease
    /\ IdleTool
    /\ IdleStamp
    /\ IdleNew
    /\ IdleFlags
    /\ IdlePair

NextCrates ==
    \/ InTreeCrates
    \/ Visit
    \/ InTreeCratesReturns

SpecCrates == InitCrates /\ [][NextCrates]_vars

\* in_tree_crates runs on one thread: once entered, the loop goes on until
\* the work list is empty and the function returns
SpecCratesFair ==
    SpecCrates /\ WF_vars(Visit) /\ WF_vars(InTreeCratesReturns)

InitBuild ==
    /\ cmd \in Subcommands
    /\ trigger_path \in BOOLEAN
    /\ dry_run \in BOOLEAN
    /\ init_dry_run = dry_run
    /\ pc = "start"
    /\ delayed_failures = <<>>
    /\ calls = <<>>
    /\ handlers = <<>>
    /\ printed = <<>>
    /\ exit_code = -1
    /\ IdleFs
    /\ IdleRelease
    /\ IdleCrates
    /\ IdleTool
    /\ IdleStamp
    /\ IdleNew
    /\ IdleFlags
    /\ IdlePair

NextBuild ==
    \/ BuildDispatch
    \/ StepFails
    \/ StepPanics
    \/ PassReturns
    \/ CheckFailures

SpecBuild == InitBuild /\ [][NextBuild]_vars

\* ------------------------------------- the toolchain and the stage queries

\* the largest compiler stage a query is made with
MaxStage == 3

\* target triples, as the sequence of their dash-separated components
Linux == <<"x86_64", "unknown", "linux", "gnu">>
Msvc == <<"x86_64", "pc", "windows", "msvc">>
VxWorks == <<"armv7", "wrs", "vxworks">>
VxMsvc == <<"custom", "vxworks", "msvc">>

Triples == {Linux, Msvc, VxWorks, VxMsvc}

\* TargetSelection.triple: the components joined by dashes
RECURSIVE triple(_)
triple(t) == IF Len(t) = 1 THEN t[1] ELSE t[1] \o "-" \o triple(Tail(t))

\* TargetSelection::contains, for a word that is a whole component
contains(t, w) == \E i \in 1 .. Len(t) : t[i] = w

\* util::use_host_linker: the condition under which a target that is being
\* cross-compiled to links with its C compiler
use_host_linker(t) == t \in host_linker

Compiler(s, h) == [stage |-> s, host |-> h]

\* force_use_stage1 with the stage test one stage too low
force_use_stage1_FromStage1(compiler, target) ==
    /\ ~full_bootstrap
    /\ compiler.stage >= 1
    /\ ((\E h \in hosts : h = target) \/ target = build)

\* Build::force_use_stage1
force_use_stage1(compiler, target) ==
    /\ ~full_bootstrap
    /\ compiler.stage >= 2
    /\ ((\E h \in hosts : h = target) \/ target = build)

Modes == {"Std", "Rustc", "Codegen", "ToolBootstrap", "ToolStd", "ToolRustc"}

\* suffix with Codegen sharing the directory of Rustc
suffix_CodegenIsRustc(mode) ==
    CASE mode = "Std" -> "-std"
      [] mode = "Rustc" -> "-rustc"
      [] mode = "Codegen" -> "-rustc"
      [] mode = "ToolBootstrap" -> "-bootstrap-tools"
      [] mode \in {"ToolStd", "ToolRustc"} -> "-tools"

\* the match on mode in Build::stage_out
suffix(mode) ==
    CASE mode = "Std" -> "-std"
      [] mode = "Rustc" -> "-rustc"
      [] mode = "Codegen" -> "-codegen"
      [] mode = "ToolBootstrap" -> "-bootstrap-tools"
      [] mode \in {"ToolStd", "ToolRustc"} -> "-tools"

\* Build::stage_out: out/<host triple>/stage<N><suffix>, as path components
stage_out(compiler, mode) ==
    <<"out", triple(compiler.host), "stage" \o ToString(compiler.stage) \o suffix(mode)>>

\* how a query ends: it returns a value, or the process aborts
Returned(v) == [status |-> "returned", val |-> v]
Aborted == [status |-> "panicked", val |-> <<>>]

\* the paths the queries return
Tool(k, t) == [tool |-> k, target |-> t]
initial_lld == Tool("lld", <<>>)

\* Build::cc: self.cc[&target], which holds an entry for every target
cc(target) == Tool("cc", target)

\* Build::cxx: <<"Ok", path>> or <<"Err", message>>
cxx(target) ==
    IF target \in cxx_tools
      THEN Returned(<<"Ok", Tool("cxx", target)>>)
      ELSE Returned(<<"Err", Tool("not configured as a host", target)>>)

\* Build::is_fuse_ld_lld
is_fuse_ld_lld(target) == use_lld /\ ~contains(target, "msvc")

\* Build::linker: <<path>> for Some(path), <<>> for None. self.cxx[&target]
\* is an index into the map, which aborts when the map has no such key.
linker(target) ==
    IF target \in target_linker
      THEN Returned(<<Tool("linker", target)>>)
    ELSE IF contains(target, "vxworks")
      THEN IF target \in cxx_tools THEN Returned(<<Tool("cxx", target)>>)
                                   ELSE Aborted
    ELSE IF target # build /\ use_host_linker(target) /\ ~contains(target, "msvc")
      THEN Returned(<<cc(target)>>)
    ELSE IF use_lld /\ ~is_fuse_ld_lld(target) /\ build = target
      THEN Returned(<<initial_lld>>)
    ELSE Returned(<<>>)

Query(o, s, t, r) ==
    [op |-> o, stage |-> s, target |-> t, status |-> r.status, val |-> r.val]

\* a call of force_use_stage1
ForceUseStage1 ==
    /\ \E s \in 0 .. MaxStage, h \in {Linux, Msvc}, t \in Triples :
          tq' = Query("force_use_stage1", s, t,
                      Returned(force_use_stage1(Compiler(s, h), t)))
    /\ UNCHANGED <<full_bootstrap, hosts, build, target_linker, cxx_tools, use_lld,
                   host_linker, so>>
    /\ UNCHANGED <<dry_run, buildVars, fsVars, relVars, crateVars, stampVars, newVars, flagVars, pairVars>>

\* a call of cxx
Cxx ==
    /\ \E t \in Triples : tq' = Query("cxx", 0, t, cxx(t))
    /\ UNCHANGED <<full_bootstrap, hosts, build, target_linker, cxx_tools, use_lld,
                   host_linker, so>>
    /\ UNCHANGED <<dry_run, buildVars, fsVars, relVars, crateVars, stampVars, newVars, flagVars, pairVars>>

\* a call of linker
Linker ==
    /\ \E t \in Triples : tq' = Query("linker", 0, t, linker(t))
    /\ UNCHANGED <<full_bootstrap, hosts, build, target_linker, cxx_tools, use_lld,
                   host_linker, so>>
    /\ UNCHANGED <<dry_run, buildVars, fsVars, relVars, crateVars, stampVars, newVars, flagVars, pairVars>>

InitTool ==
    /\ full_bootstrap \in BOOLEAN
    /\ build \in {Linux, VxMsvc}
    /\ hosts \in {{}, {build}, {Linux, Msvc}}
    /\ target_linker \in {{}, {VxWorks}, {Linux, VxMsvc}}
    /\ cxx_tools \in SUBSET Triples
    /\ use_lld \in BOOLEAN
    /\ host_linker \in {Triples, {Msvc, VxMsvc}, {}}
    /\ tq = [op |-> "none"]
    /\ so = <<>>
    /\ dry_run = FALSE
    /\ IdleBuild
    /\ IdleFs
    /\ IdleRelease
    /\ IdleCrates
    /\ IdleStamp
    /\ IdleNew
    /\ IdleFlags
    /\ IdlePair

NextTool ==
    \/ ForceUseStage1
    \/ Cxx
    \/ Linker

SpecTool == InitTool /\ [][NextTool]_vars

\* a call of stage_out; so keeps the last two calls
StageOut ==
    /\ \E s \in 0 .. MaxStage, h \in {Linux, Msvc}, m \in Modes :
          LET c == [stage |-> s, host |-> h, mode |-> m,
                    out |-> stage_out(Compiler(s, h), m)]
          IN  so' = IF so = <<>> THEN <<c>> ELSE <<so[Len(so)], c>>
    /\ UNCHANGED <<full_bootstrap, hosts, build, target_linker, cxx_tools, use_lld,
                   host_linker, tq>>
    /\ UNCHANGED <<dry_run, buildVars, fsVars, relVars, crateVars, stampVars, newVars, flagVars, pairVars>>

InitStageOut ==
    /\ dry_run = FALSE
    /\ IdleBuild
    /\ IdleFs
    /\ IdleRelease
    /\ IdleCrates
    /\ IdleTool
    /\ IdleStamp
    /\ IdleNew
    /\ IdleFlags
    /\ IdlePair

NextStageOut == StageOut

SpecStageOut == InitStageOut /\ [][NextStageOut]_vars

\* ------------------------------------------------------- read_stamp_file

\* the longest stamp file read as found, and the most records encoded
MaxStampLen == 4
MaxRecs == 2

\* bytes: the separator, the tags 'h' 's' 't', 'x', 'a', and 0xFF, which no
\* UTF-8 text holds
Bytes == {0, 104, 115, 116, 120, 97, 255}

RECURSIVE BytesUpTo(_)
BytesUpTo(n) ==
    IF n = 0 THEN {<<>>}
    ELSE LET S == BytesUpTo(n - 1)
         IN  S \cup {Append(s, b) : s \in {x \in S : Len(x) = n - 1}, b \in Bytes}

\* contents.split(|b| *b == 0): k separators give k + 1 parts
RECURSIVE split(_, _, _)
split(contents, i, part) ==
    IF i > Len(contents) THEN <<part>>
    ELSE IF contents[i] = 0 THEN <<part>> \o split(contents, i + 1, <<>>)
    ELSE split(contents, i + 1, Append(part, contents[i]))

\* str::from_utf8 succeeds; of the bytes modelled only 0xFF is not UTF-8
is_utf8(bytes) == \A i \in 1 .. Len(bytes) : bytes[i] < 128

\* dependency_type with Target for an unknown tag
dependency_type_DefaultsToTarget(b) ==
    CASE b = 104 -> <<"Host">>
      [] b = 115 -> <<"TargetSelfContained">>
      [] OTHER -> <<"Target">>

\* the match on part[0]: <<the type>>, or <<>> where it is unreachable!()
dependency_type(b) ==
    CASE b = 104 -> <<"Host">>
      [] b = 115 -> <<"TargetSelfContained">>
      [] b = 116 -> <<"Target">>
      [] OTHER -> <<>>

\* read_parts with the tag byte left in the path
RECURSIVE read_parts_KeepsTag(_, _, _)
read_parts_KeepsTag(parts, i, paths) ==
    IF i > Len(parts) THEN Returned(paths)
    ELSE IF parts[i] = <<>> THEN read_parts_KeepsTag(parts, i + 1, paths)
    ELSE LET ty == dependency_type(parts[i][1])
         IN  IF ty = <<>> \/ ~is_utf8(parts[i]) THEN Aborted
             ELSE read_parts_KeepsTag(parts, i + 1,
                      Append(paths, [path |-> parts[i], ty |-> ty[1]]))

\* the loop of read_stamp_file over the parts, from the i-th on
RECURSIVE read_parts(_, _, _)
read_parts(parts, i, paths) ==
    IF i > Len(parts) THEN Returned(paths)
    ELSE IF parts[i] = <<>> THEN read_parts(parts, i + 1, paths)
    ELSE LET ty == dependency_type(parts[i][1])
         IN  IF ty = <<>> \/ ~is_utf8(Tail(parts[i])) THEN Aborted
             ELSE read_parts(parts, i + 1,
                      Append(paths, [path |-> Tail(parts[i]), ty |-> ty[1]]))

\* Build::read_stamp_file on a file: <<>> when missing, else <<its bytes>>
read_stamp_file(file) ==
    IF dry_run THEN Returned(<<>>)
    ELSE IF file = <<>> THEN Aborted
    ELSE read_parts(split(file[1], 1, <<>>), 1, <<>>)

\* the records a stamp file is written from
StampPaths == {<<97>>, <<104>>, <<97, 104>>, <<116, 97>>}
StampRecs == [path : StampPaths, ty : {"Host", "TargetSelfContained", "Target"}]

RECURSIVE RecLists(_)
RecLists(n) ==
    IF n = 0 THEN {<<>>}
    ELSE LET S == RecLists(n - 1)
         IN  S \cup {Append(s, r) : s \in {x \in S : Len(x) = n - 1}, r \in StampRecs}

tag(ty) == CASE ty = "Host" -> 104
             [] ty = "TargetSelfContained" -> 115
             [] ty = "Target" -> 116

Zeros(n) == [i \in 1 .. n |-> 0]

\* the stamp format: each record is its tag byte and its path; gap zero
\* bytes between two records, lead before the first, trail after the last
RECURSIVE encode(_, _, _)
encode(recs, i, gap) ==
    IF i > Len(recs) THEN <<>>
    ELSE <<tag(recs[i].ty)>> \o recs[i].path
           \o (IF i < Len(recs) THEN Zeros(gap) ELSE <<>>)
           \o encode(recs, i + 1, gap)

\* the stamp file, missing so far, is written from a list of records
WriteStamp ==
    /\ stamp_file = <<>>
    /\ \E recs \in RecLists(MaxRecs), lead \in 0 .. 1, gap \in 1 .. 2, trail \in 0 .. 1 :
          /\ stamp_file' = <<Zeros(lead) \o encode(recs, 1, gap) \o Zeros(trail)>>
          /\ written' = <<recs>>
    /\ sq' = [status |-> "none", val |-> <<>>]
    /\ UNCHANGED <<dry_run, buildVars, fsVars, relVars, crateVars, toolVars, newVars, flagVars, pairVars>>

\* a call of read_stamp_file on the stamp file
ReadStampFile ==
    /\ sq' = [status |-> read_stamp_file(stamp_file).status,
              val |-> read_stamp_file(stamp_file).val]
    /\ UNCHANGED <<stamp_file, written>>
    /\ UNCHANGED <<dry_run, buildVars, fsVars, relVars, crateVars, toolVars, newVars, flagVars, pairVars>>

InitStamp ==
    /\ dry_run \in BOOLEAN
    /\ stamp_file \in {<<>>} \cup {<<c>> : c \in BytesUpTo(MaxStampLen)}
    /\ written = <<>>
    /\ sq = [status |-> "none", val |-> <<>>]
    /\ IdleBuild
    /\ IdleFs
    /\ IdleRelease
    /\ IdleCrates
    /\ IdleTool
    /\ IdleNew
    /\ IdleFlags
    /\ IdlePair

NextStamp ==
    \/ WriteStamp
    \/ ReadStampFile

SpecStamp == InitStamp /\ [][NextStamp]_vars

\* ------------------------------------------------------------ Build::new

\* text is a sequence of tokens: words, numbers, ".", and white space
WhiteSpace == {" ", "\n"}

\* str::trim
RECURSIVE trim(_)
trim(s) ==
    IF s = <<>> THEN s
    ELSE IF Head(s) \in WhiteSpace THEN trim(Tail(s))
    ELSE IF s[Len(s)] \in WhiteSpace THEN trim(SubSeq(s, 1, Len(s) - 1))
    ELSE s

\* str::split('.'): k dots give k + 1 pieces
RECURSIVE split_dots(_, _, _)
split_dots(s, i, piece) ==
    IF i > Len(s) THEN <<piece>>
    ELSE IF s[i] = "." THEN <<piece>> \o split_dots(s, i + 1, <<>>)
    ELSE split_dots(s, i + 1, Append(piece, s[i]))

\* Iterator::take(2)
take2(s) == SubSeq(s, 1, IF Len(s) < 2 THEN Len(s) ELSE 2)

\* Path::parent: <<>> for None (the root has no parent), else <<the parent>>
path_parent(p) == IF p = <<>> THEN <<>> ELSE <<SubSeq(p, 1, Len(p) - 1)>>

\* Path::strip_prefix: <<>> for Err, else <<the rest>>
strip_prefix(p, base) ==
    IF Len(base) <= Len(p) /\ SubSeq(p, 1, Len(base)) = base
      THEN <<SubSeq(p, Len(base) + 1, Len(p))>>
      ELSE <<>>

\* the paths of a dry run, "/dummy/lib/path/to/lib/" and "/dummy"
DummyLibdir == <<"dummy", "lib", "path", "to", "lib">>
DummySysroot == <<"dummy">>

\* what `--print sysroot` prints
SysrootOut == <<"sysroot">>

\* initial_target_libdir_str with the compiler run in a dry run too
initial_target_libdir_str_AlwaysRuns ==
    [inv |-> <<"target-libdir">>, ok |-> "target-libdir" \in rustc_ok,
     out |-> libdir_out]

\* initial_target_libdir_str: the invocation made, whether output() returns,
\* and the string
initial_target_libdir_str ==
    IF dry_run
      THEN [inv |-> <<>>, ok |-> TRUE, out |-> DummyLibdir]
      ELSE [inv |-> <<"target-libdir">>, ok |-> "target-libdir" \in rustc_ok,
            out |-> libdir_out]

\* initial_sysroot
initial_sysroot ==
    IF dry_run
      THEN [inv |-> <<>>, ok |-> TRUE, out |-> DummySysroot]
      ELSE [inv |-> <<"sysroot">>, ok |-> "sysroot" \in rustc_ok, out |-> SysrootOut]

\* local_release: the first line with the prefix "release:", without the
\* prefix; <<>> when there is none (next() is None), else <<the rest>>
RECURSIVE release_line(_, _)
release_line(lines, i) ==
    IF i > Len(lines) THEN <<>>
    ELSE IF lines[i] # <<>> /\ Head(lines[i]) = "release:" THEN <<Tail(lines[i])>>
    ELSE release_line(lines, i + 1)

\* local_rebuild_after with the detection overwriting the configured value
local_rebuild_after_Overwrites(local_release, version) ==
    take2(split_dots(local_release, 1, <<>>)) = take2(split_dots(version, 1, <<>>))

\* Build.local_rebuild once the detection has run
local_rebuild_after(local_release, version) ==
    IF take2(split_dots(local_release, 1, <<>>)) = take2(split_dots(version, 1, <<>>))
      THEN TRUE
      ELSE cfg_local_rebuild

NewAborted(inv) ==
    [status |-> "panicked", invoked |-> inv, local_rebuild |-> FALSE,
     initial_lld |-> <<>>, initial_libdir |-> <<>>]

\* Build::new, from the first invocation of the stage0 compiler on
new ==
    LET lib == initial_target_libdir_str
        sys == initial_sysroot
        inv2 == lib.inv \o sys.inv
        inv3 == inv2 \o <<"version">>
        dir == path_parent(lib.out)
        up1 == IF dir = <<>> THEN <<>> ELSE path_parent(dir[1])
        up2 == IF up1 = <<>> THEN <<>> ELSE path_parent(up1[1])
        libdir == IF up2 = <<>> THEN <<>> ELSE strip_prefix(up2[1], trim(sys.out))
        rel == release_line(version_out, 1)
    IN  IF ~lib.ok THEN NewAborted(lib.inv)
        ELSE IF dir = <<>> THEN NewAborted(lib.inv)
        ELSE IF ~sys.ok THEN NewAborted(inv2)
        ELSE IF libdir = <<>> THEN NewAborted(inv2)
        ELSE IF version_file = <<>> THEN NewAborted(inv2)
        ELSE IF ~probes_ok THEN NewAborted(inv2)
        ELSE IF "version" \notin rustc_ok THEN NewAborted(inv3)
        ELSE IF rel = <<>> THEN NewAborted(inv3)
        ELSE [status |-> "returned", invoked |-> inv3,
              local_rebuild |-> local_rebuild_after(trim(rel[1]), trim(version_file[1])),
              initial_lld |-> dir[1] \o <<"bin", "rust-lld">>,
              initial_libdir |-> libdir[1]]

\* Build::new is called
New ==
    /\ nb.status = "none"
    /\ nb' = new
    /\ UNCHANGED <<rustc_ok, libdir_out, version_file, version_out, cfg_local_rebuild,
                   probes_ok>>
    /\ UNCHANGED <<dry_run, buildVars, fsVars, relVars, crateVars, toolVars, stampVars,
                   flagVars, pairVars>>

\* the contents src/version can have
VersionFiles ==
    {<<"1", ".", "50", ".", "0", "\n">>, <<"1", ".", "51", ".", "0", "\n">>,
     <<"1", ".", "50", "\n">>, <<"2", ".", "50", ".", "0">>}

\* what the stage0 compiler can print for --version --verbose
VersionOuts ==
    {<< <<"rustc", " ", "1", ".", "50", ".", "1">>, <<"binary:", " ", "rustc">>,
        <<"release:", " ", "1", ".", "50", ".", "1">>, <<"LLVM", " ", "11">> >>,
     << <<"rustc", " ", "1", ".", "49", ".", "0">>,
        <<"release:", " ", "1", ".", "49", ".", "0-beta", ".", "2">> >>,
     << <<"release:", " ", "1", ".", "51", ".", "0">>,
        <<"release:", " ", "1", ".", "50", ".", "0">> >>,
     << <<"rustc", " ", "1", ".", "50", ".", "1">> >>}

InitNew ==
    /\ dry_run \in BOOLEAN
    /\ rustc_ok \in SUBSET {"target-libdir", "sysroot", "version"}
    /\ libdir_out \in {<<"sysroot", "lib", "rustlib", "x86_64", "lib">>,
                       <<"elsewhere", "lib", "rustlib", "x86_64", "lib">>}
    /\ version_file \in {<<>>} \cup {<<v>> : v \in VersionFiles}
    /\ version_out \in VersionOuts
    /\ cfg_local_rebuild \in BOOLEAN
    /\ probes_ok \in BOOLEAN
    /\ nb = [status |-> "none"]
    /\ IdleBuild
    /\ IdleFs
    /\ IdleRelease
    /\ IdleCrates
    /\ IdleTool
    /\ IdleStamp
    /\ IdleFlags
    /\ IdlePair

NextNew == New

SpecNew == InitNew /\ [][NextNew]_vars

\* ---------------------------------------------------------- Build::cflags

\* a flag is the sequence of the pieces of its text
AppleDarwin == <<"x86_64", "apple", "darwin">>
I686Gnu == <<"i686", "pc", "windows", "gnu">>

FlagTargets == {Linux, AppleDarwin, I686Gnu}

\* TargetSelection::contains, for words that are whole adjacent components
contains_words(t, ws) ==
    \E i \in 1 .. Len(t) - Len(ws) + 1 : SubSeq(t, i, i + Len(ws) - 1) = ws

\* Path::ends_with, for a file name
ends_with(path, name) == path # <<>> /\ path[Len(path)] = name

\* str::starts_with, for a prefix that is the first piece
starts_with(flag, prefix) == flag # <<>> /\ Head(flag) = prefix

\* Build.src, as it is displayed
SrcDisplay == "/checkout"

GitRepos == {"Rustc", "Llvm"}

\* debuginfo_map_to with the configuration ignored
debuginfo_map_to_IgnoresConfig(which) ==
    IF which = "Rustc"
      THEN << <<"/rustc/", IF rust_sha # <<>> THEN rust_sha[1] ELSE version_str>> >>
      ELSE << <<"/rustc/llvm">> >>

\* Build::debuginfo_map_to: <<>> for None, else <<the destination>>
debuginfo_map_to(which) ==
    IF ~rust_remap_debuginfo THEN <<>>
    ELSE IF which = "Rustc"
      THEN << <<"/rustc/", IF rust_sha # <<>> THEN rust_sha[1] ELSE version_str>> >>
      ELSE << <<"/rustc/llvm">> >>

\* the arguments of the C compiler without the optimization flags
RECURSIVE filter_O(_)
filter_O(args) ==
    IF args = <<>> THEN <<>>
    ELSE IF ~starts_with(Head(args), "-O") /\ ~starts_with(Head(args), "/O")
      THEN <<Head(args)>> \o filter_O(Tail(args))
    ELSE filter_O(Tail(args))

\* Build::cflags
cflags(target, which) ==
    LET base0 == filter_O(cc_tools[target].args)
        base1 == IF contains_words(target, <<"apple", "darwin">>)
                   THEN Append(base0, <<"-stdlib=libc++">>) ELSE base0
        base2 == IF triple(target) = "i686-pc-windows-gnu"
                   THEN Append(base1, <<"-fno-omit-frame-pointer">>) ELSE base1
        to == debuginfo_map_to(which)
        path == cc_tools[target].path
    IN  IF to = <<>> THEN base2
        ELSE LET map == <<SrcDisplay, "=">> \o to[1]
             IN  IF ends_with(path, "clang") \/ ends_with(path, "gcc")
                   THEN Append(base2, <<"-fdebug-prefix-map=">> \o map)
                 ELSE IF ends_with(path, "clang-cl.exe")
                   THEN base2 \o << <<"-Xclang">>, <<"-fdebug-prefix-map=">> \o map >>
                 ELSE base2

\* a call of cflags
Cflags ==
    /\ \E t \in FlagTargets, w \in GitRepos :
          fq' = [status |-> "returned", target |-> t, which |-> w, val |-> cflags(t, w)]
    /\ UNCHANGED <<rust_remap_debuginfo, rust_sha, version_str, cc_tools>>
    /\ UNCHANGED <<dry_run, buildVars, fsVars, relVars, crateVars, toolVars, stampVars,
                   newVars, pairVars>>

\* the C compilers found for the targets
CcPaths == {<<"usr", "bin", "gcc">>, <<"usr", "bin", "clang">>, <<"clang-cl.exe">>,
            <<"cl.exe">>, <<"usr", "bin", "arm-linux-gcc">>}
CcArgs == {<< <<"-O", "2">>, <<"-fPIC">> >>, << <<"-m64">>, <<"/O", "x">> >>}

InitFlags ==
    /\ rust_remap_debuginfo \in BOOLEAN
    /\ rust_sha \in {<<>>, <<"abc123">>}
    /\ version_str \in Versions
    /\ cc_tools \in [FlagTargets -> [path : CcPaths, args : CcArgs]]
    /\ fq = [status |-> "none"]
    /\ dry_run = FALSE
    /\ IdleBuild
    /\ IdleFs
    /\ IdleRelease
    /\ IdleCrates
    /\ IdleTool
    /\ IdleStamp
    /\ IdleNew
    /\ IdlePair

NextFlags == Cflags

SpecFlags == InitFlags /\ [][NextFlags]_vars

\* ------------------------------------------------------------------ claims

\* build has finished: it returned or called process::exit
Finished == pc \in {"returned", "exited"}

\* the subcommand and path for which build reaches the scheduler
Scheduled == cmd \notin ShortCircuit /\ ~trigger_path

\* C1: for a subcommand other than Format, Clean, Setup (first path not the
\* trigger path), a build entered with dry_run false calls execute_cli
\* exactly twice, with dry_run true and then false, and dry_run is false when
\* build finishes; entered with dry_run true it calls it exactly once, with
\* dry_run true.
C1_TwoPasses ==
    Scheduled =>
        /\ Finished =>
              IF init_dry_run
                THEN calls = <<TRUE>> /\ dry_run
                ELSE calls = <<TRUE, FALSE>> /\ ~dry_run
        /\ \/ calls = <<>>
           \/ calls = <<TRUE>>
           \/ calls = <<TRUE, FALSE>> /\ ~init_dry_run

C1_Witness ==
    /\ Scheduled /\ ~init_dry_run
    /\ pc = "returned"
    /\ calls = <<TRUE, FALSE>>

\* C2: build exits with status 1 exactly when the deferred-failure list is
\* not empty after the last scheduler pass; the list is acted on only then,
\* every recorded failure is printed before the exit, and with an empty list
\* build returns (status 0).
C2_DeferredExit ==
    /\ pc = "exited" =>
          /\ exit_code = 1
          /\ delayed_failures # <<>>
          /\ printed = delayed_failures
          /\ calls = (IF init_dry_run THEN <<TRUE>> ELSE <<TRUE, FALSE>>)
    /\ pc = "returned" =>
          /\ exit_code = 0
          /\ delayed_failures = <<>>
          /\ printed = <<>>
    /\ pc \notin {"exited", "returned", "panicked"} =>
          /\ exit_code = -1
          /\ printed = <<>>

C2_Witness ==
    /\ pc = "exited"
    /\ ~init_dry_run
    /\ Len(delayed_failures) = 2
    /\ printed = delayed_failures

\* C3: with Format, Clean or Setup, build runs only that subcommand's
\* handler and returns; execute_cli is never called.
C3_ShortCircuit ==
    cmd \in ShortCircuit =>
        /\ calls = <<>>
        /\ pc \in {"start", "returned"}
        /\ pc = "returned" => handlers = <<cmd>> /\ dry_run = init_dry_run

C3_Witness ==
    /\ cmd = "Setup"
    /\ pc = "returned"
    /\ handlers = <<"Setup">>

\* the last call has ended, by returning or by a panic
Ended == fpc \in {"returned", "panicked"}

\* C4: with the dry-run flag set, copy, cp_r, install and replace_in_file
\* return at once and leave the whole filesystem as it was, whatever their
\* arguments (a source that does not exist included).
C4_DryRunNoop ==
    (dry_run /\ Ended /\ last.call.op \in {"copy", "cp_r", "install", "replace_in_file"})
        => fpc = "returned" /\ fs = pre_fs

C4_Witness ==
    /\ dry_run
    /\ fpc = "returned"
    /\ last.call.op = "copy"
    /\ kind(pre_fs, last.call.src) = "none"
    /\ kind(pre_fs, last.call.dst) = "file"
    /\ fs = pre_fs

\* C5: with the dry-run flag set, cp_filtered creates, removes or changes
\* nothing under dst, for every src tree, dst tree and filter.
C5_DryRunCpFiltered ==
    (dry_run /\ Ended /\ last.call.op = "cp_filtered")
        => \A p \in Paths : IsUnder(p, <<"dst">>) => fs[p] = pre_fs[p]

\* clear_if_dirty has just returned
ClearReturned == fpc = "returned" /\ last.call.op = "clear_if_dirty"

\* when it was called, the input was newer than the sentinel
WasDirty == mtime(pre_fs, Stamp) < mtime(pre_fs, Input)

\* when it was called, the sentinel existed and was not older than the input
WasCurrent == kind(pre_fs, Stamp) # "none" /\ ~WasDirty

C7_CurrentIsKept ==
    ClearReturned =>
        /\ WasCurrent => (last.ret = FALSE /\ fs = pre_fs)
        /\ \/ \A p \in Artifacts : fs[p] = pre_fs[p]
           \/ \A p \in Artifacts : kind(fs, p) = "none"

C7_Witness ==
    /\ ClearReturned /\ WasCurrent
    /\ mtime(pre_fs, Input) = mtime(pre_fs, Stamp)
    /\ kind(fs, <<"dst", "d", "f">>) = "file"
    /\ kind(fs, <<"dst", "g">>) = "file"
    /\ last.ret = FALSE

\* C8 as stated: every call of clear_if_dirty, also one that finds the
\* sentinel current, leaves the directory present and the sentinel's
\* timestamp at the current time.
C8_AlwaysRefreshed ==
    ClearReturned =>
        /\ kind(fs, ClearDir) = "dir"
        /\ kind(fs, Stamp) = "file"
        /\ fs[Stamp].mtime = now

\* C8 as amended: every call leaves the directory and the sentinel present;
\* the sentinel's timestamp is set to the current time unless the sentinel
\* was present and not older than the input, and then it is left as it was.
C8_RefreshedUnlessCurrent ==
    ClearReturned =>
        /\ kind(fs, ClearDir) = "dir"
        /\ kind(fs, Stamp) = "file"
        /\ IF WasCurrent THEN fs[Stamp] = pre_fs[Stamp] ELSE fs[Stamp].mtime = now

C8_Witness ==
    /\ ClearReturned /\ WasCurrent
    /\ fs[Stamp].mtime < now
    /\ kind(fs, ClearDir) = "dir"

\* C9: over any sequence of calls of release and beta_prerelease_version on
\* one Build the git subprocess that counts the merge commits runs at most
\* once, and every call returns the ordinal the first call returned.
C9_ComputedOnce ==
    /\ git_calls <= 1
    /\ \A i \in 1 .. Len(rets) : rets[i] = rets[1]
    /\ rets # <<>> => git_calls = 1 /\ prerelease_version = <<rets[1]>>

C9_Witness ==
    /\ channel = "beta" /\ is_git
    /\ Len(rets) = 3
    /\ merges > rets[1]
    /\ git_calls = 1
    /\ released.str = released.num \o "-beta." \o ToString(rets[1])

\* the names a sequence holds
Range(s) == {s[i] : i \in 1 .. Len(s)}

\* the dependencies C10 leaves out: build_helper; profiler_builtins unless
\* the profiler is enabled for the given target, or for any target when none
\* is given; rustc_codegen_llvm unless LLVM is enabled
C10_Pruned(v) ==
    \/ v = "build_helper"
    \/ /\ v = "profiler_builtins"
       /\ IF it_target = <<>> THEN profiler = {} ELSE it_target[1] \notin profiler
    \/ v = "rustc_codegen_llvm" /\ ~llvm

\* the least set that holds S and every crate of the map that is not left
\* out and that a member depends on
RECURSIVE C10_Reach(_)
C10_Reach(S) ==
    LET T == S \cup {v \in DOMAIN crates :
                        ~C10_Pruned(v) /\ \E u \in S : v \in crates[u]}
    IN  IF T = S THEN S ELSE C10_Reach(T)

\* C10: the set of crates in_tree_crates(root, target) returns is the set
\* reachable from root along dependency edges whose destination is in the
\* crate map and is not pruned; a name absent from the map is never in the
\* result; on root->{a,b}, a->{c}, b->{}, c->{} the set is {root,a,b,c}.
C10_Closure ==
    ipc = "done" =>
        /\ Range(ret) = C10_Reach({it_root})
        /\ "ext" \notin Range(ret)
        /\ (/\ it_root = "root"
            /\ crates["root"] = {"a", "b"}
            /\ crates["a"] = {"c"}
            /\ crates["b"] = {}
            /\ crates["c"] = {})
              => Range(ret) = {"root", "a", "b", "c"}

C10_Witness ==
    /\ ipc = "done"
    /\ it_root = "root"
    /\ crates["root"] = {"a", "ext", "build_helper"}
    /\ crates["build_helper"] = {"b"}
    /\ crates["a"] = {"a", "c"}
    /\ crates["c"] = {"root", "rustc_codegen_llvm"}
    /\ llvm
    /\ Range(ret) = {"root", "a", "c", "rustc_codegen_llvm"}

\* C11 as stated: for every crate graph, every root and every target the
\* list in_tree_crates returns holds no crate named build_helper.
C11_NeverBuildHelper ==
    ipc = "done" => "build_helper" \notin Range(ret)

\* C11 amended: build_helper is never reported as a dependency; the list
\* holds it only as its first element, when it is the root asked for.
C11_BuildHelperOnlyAsRoot ==
    ipc \in {"loop", "done"} =>
        \A i \in 1 .. Len(ret) :
            ret[i] = "build_helper" => i = 1 /\ it_root = "build_helper"

C11_Witness ==
    /\ ipc = "done"
    /\ it_root = "root"
    /\ "build_helper" \in crates["root"]
    /\ crates["build_helper"] = {"b"}
    /\ "b" \notin crates["root"]
    /\ Range(ret) = {"root"}

\* C12: force_use_stage1(compiler, target) is true exactly when full
\* bootstrap is not configured, the compiler's stage is at least 2 and the
\* target is one of the hosts or the build platform; it is false for every
\* compiler of stage 0 or 1 and whenever full bootstrap is configured.
C12_ForceUseStage1 ==
    tq.op = "force_use_stage1" =>
        /\ tq.status = "returned"
        /\ tq.val <=> (/\ ~full_bootstrap
                       /\ tq.stage >= 2
                       /\ (tq.target \in hosts \/ tq.target = build))
        /\ tq.stage \in {0, 1} => ~tq.val
        /\ full_bootstrap => ~tq.val

C12_Witness ==
    /\ tq.op = "force_use_stage1"
    /\ tq.val
    /\ tq.stage = 2
    /\ tq.target \in hosts
    /\ tq.target # build

\* the last two calls of stage_out were for the same compiler
C13_SameCompiler ==
    /\ Len(so) = 2
    /\ so[1].stage = so[2].stage
    /\ so[1].host = so[2].host

C17_FirstMatch(t) ==
    CASE t \in target_linker -> <<Tool("linker", t)>>
      [] t \notin target_linker /\ contains(t, "vxworks") -> <<Tool("cxx", t)>>
      [] OTHER ->
           IF t # build /\ ~contains(t, "msvc") /\ use_host_linker(t)
             THEN <<Tool("cc", t)>>
           ELSE IF use_lld /\ ~is_fuse_ld_lld(t) /\ t = build
             THEN <<initial_lld>>
           ELSE <<>>

\* C17: linker(target) returns what the first matching rule gives: (a) the
\* linker configured for the target, else (b) the C++ compiler of a vxworks
\* target, else (c) the C compiler of a target that is not the build
\* platform, not msvc and links through its C compiler, else (d) the in-tree
\* lld when it is enabled, not suppressed for the target and the target is
\* the build platform, else (e) nothing.
C17_LinkerPrecedence ==
    tq.op = "linker" =>
        /\ tq.status = "returned"
        /\ tq.val = C17_FirstMatch(tq.target)

\* C18: for a target with no entry in the C++ compiler map, cxx(target)
\* returns an error and linker(target) returns to its caller; neither
\* aborts the process.
C18_MissingCxxIsRecoverable ==
    (tq.op \in {"cxx", "linker"} /\ tq.target \notin cxx_tools) =>
        /\ tq.status = "returned"
        /\ tq.op = "cxx" => tq.val[1] = "Err"

\* the records of a stamp file, found without split: the maximal runs of
\* bytes other than the separator, in file order
C14_Starts(c) == {i \in 1 .. Len(c) : c[i] # 0 /\ (i = 1 \/ c[i - 1] = 0)}

C14_End(c, i) ==
    CHOOSE j \in i .. Len(c) :
        /\ \A k \in i .. j : c[k] # 0
        /\ j = Len(c) \/ c[j + 1] = 0

RECURSIVE C14_Sorted(_)
C14_Sorted(S) ==
    IF S = {} THEN <<>>
    ELSE LET m == CHOOSE x \in S : \A y \in S : x <= y
         IN  <<m>> \o C14_Sorted(S \ {m})

C14_Records(c) ==
    LET st == C14_Sorted(C14_Starts(c))
    IN  [k \in 1 .. Len(st) |-> SubSeq(c, st[k], C14_End(c, st[k]))]

C14_Type(b) == IF b = 104 THEN "Host"
               ELSE IF b = 115 THEN "TargetSelfContained"
               ELSE "Target"

\* a call of read_stamp_file with dry-run off on a file that exists has ended
C14_Read == sq.status # "none" /\ ~dry_run /\ stamp_file # <<>>

\* C14: with dry-run off read_stamp_file maps each non-empty record to its
\* path (the bytes after the first) and the type its first byte names ('h'
\* Host, 's' TargetSelfContained, 't' Target); a record with any other first
\* byte makes the call fail fatally: it is never dropped or given a type.
C14_TagsAndPaths ==
    C14_Read =>
        LET recs == C14_Records(stamp_file[1])
        IN  /\ (\E k \in 1 .. Len(recs) : recs[k][1] \notin {104, 115, 116})
                  => sq.status = "panicked"
            /\ (\A k \in 1 .. Len(recs) :
                    recs[k][1] \in {104, 115, 116} /\ is_utf8(recs[k]))
                  => sq.status = "returned"
            /\ sq.status = "returned" =>
                  sq.val = [k \in 1 .. Len(recs) |->
                               [path |-> Tail(recs[k]), ty |-> C14_Type(recs[k][1])]]

C14_Witness ==
    /\ C14_Read
    /\ stamp_file = << <<0, 116, 97, 0>> >>
    /\ sq = [status |-> "returned", val |-> << [path |-> <<97>>, ty |-> "Target"] >>]

\* C15: a stamp file encoded from a list of records (tag byte, path bytes,
\* records separated by one or more zero bytes, zero bytes before or after)
\* is read back by read_stamp_file as exactly that list, in that order.
C15_RoundTrip ==
    (sq.status # "none" /\ ~dry_run /\ written # <<>>) =>
        /\ sq.status = "returned"
        /\ sq.val = written[1]

C15_Witness ==
    /\ ~dry_run
    /\ written = << << [path |-> <<97, 104>>, ty |-> "Host"],
                       [path |-> <<116, 97>>, ty |-> "TargetSelfContained"] >> >>
    /\ stamp_file = << <<0, 104, 97, 104, 0, 0, 115, 116, 97, 0>> >>
    /\ sq.status = "returned"
    /\ sq.val = written[1]

\* C16: release(num) is num on channel stable; num-beta.<N>, N the
\* prerelease ordinal, on beta in a git checkout and num-beta on beta
\* without one; num-nightly on nightly; num-dev on any other channel.
C16_ReleaseString ==
    released.num # "" =>
        /\ channel = "stable" => released.str = released.num
        /\ (channel = "beta" /\ is_git) =>
              /\ prerelease_version # <<>>
              /\ released.str =
                    released.num \o "-beta." \o ToString(prerelease_version[1])
        /\ (channel = "beta" /\ ~is_git) => released.str = released.num \o "-beta"
        /\ channel = "nightly" => released.str = released.num \o "-nightly"
        /\ channel \notin {"stable", "beta", "nightly"} =>
              released.str = released.num \o "-dev"
        /\ released.num = "1.2.3" =>
              released.str = CASE channel = "stable" -> "1.2.3"
                               [] channel = "nightly" -> "1.2.3-nightly"
                               [] channel = "beta" /\ ~is_git -> "1.2.3-beta"
                               [] channel = "anything-else" -> "1.2.3-dev"
                               [] OTHER -> released.str

C16_Witness ==
    /\ channel = "anything-else"
    /\ released = [num |-> "1.2.3", str |-> "1.2.3-dev"]

\* C19: with dry-run off, a second call of copy(src, dst) right after one
\* that returned also returns and leaves dst with the content and the
\* permissions the first call left, and src as it was; a call with src equal
\* to dst changes nothing.
C19_CopyIdempotent ==
    /\ (~dry_run /\ fpc \in {"returned again", "panicked again"}) =>
          /\ fpc = "returned again"
          /\ fs[last.call.dst].kind = pre_fs[last.call.dst].kind
          /\ fs[last.call.dst].content = pre_fs[last.call.dst].content
          /\ fs[last.call.dst].perm = pre_fs[last.call.dst].perm
          /\ fs[last.call.src] = pre_fs[last.call.src]
    /\ (~dry_run /\ fpc # "idle" /\ last.call.op = "copy"
          /\ last.call.src = last.call.dst) =>
          /\ fpc \in {"returned", "returned again"}
          /\ fs = pre_fs

C19_Witness ==
    /\ ~dry_run
    /\ ~hardlinks
    /\ fpc = "returned again"
    /\ now = 3
    /\ last.call.src = <<"src", "d", "f">>
    /\ last.call.dst = <<"dst", "g">>
    /\ fs[last.call.dst] = FileNode(Text1, "755", 1, <<"dst", "g">>)

\* cp_filtered has just returned
C20_Returned == fpc = "returned" /\ last.call.op = "cp_filtered"

\* the relative paths, below the src the call was made on, of the entries
\* src held that the filter rejects
C20_Rejected ==
    {rel \in RelPaths \cup {<<"f">>} :
        /\ Append(last.call.src, rel[1]) \in Paths
        /\ last.call.src \o rel \in Paths
        /\ kind(pre_fs, last.call.src \o rel) # "none"
        /\ rel \notin last.call.accept}

\* C20 as stated: after cp_filtered (dry-run off) dst holds no entry at a
\* relative path the filter rejects: the entry is not copied and a stale
\* copy of it under dst is removed.
C20_RejectedAreRemoved ==
    (C20_Returned /\ ~dry_run) =>
        \A rel \in C20_Rejected : kind(fs, last.call.dst \o rel) = "none"

\* C20 amended: an entry the filter rejects is neither copied nor descended
\* into, and dst is left as it was at its path and below, a stale copy
\* included; only a rejected entry inside an accepted directory is gone from
\* dst, with the old copy of that directory, which is removed whole.
C20_RejectedAreSkipped ==
    C20_Returned =>
        \A rel \in C20_Rejected :
            LET d == last.call.dst \o rel
            IN  IF Len(rel) = 1
                  THEN \A q \in Paths : (q = d \/ IsUnder(q, d)) => fs[q] = pre_fs[q]
                ELSE parent(rel) \in last.call.accept => kind(fs, d) = "none"

C20_Witness ==
    /\ C20_Returned
    /\ ~dry_run
    /\ last.call.src = <<"src">>
    /\ last.call.accept = {<<"d">>}
    /\ kind(pre_fs, <<"src", "d", "f">>) = "file"
    /\ kind(pre_fs, <<"src", "g">>) = "file"
    /\ kind(pre_fs, <<"dst", "d", "f">>) = "file"
    /\ kind(pre_fs, <<"dst", "g">>) = "file"
    /\ fs[<<"dst", "g">>] = pre_fs[<<"dst", "g">>]
    /\ kind(fs, <<"dst", "d">>) = "dir"
    /\ kind(fs, <<"dst", "d", "f">>) = "none"

\* Build::new has ended, by returning the Build or by a panic
C21_Ended == nb.status # "none"

\* C21 as stated: in a dry run Build::new runs the stage0 compiler for none
\* of --print target-libdir, --print sysroot and --version --verbose;
\* otherwise it returns only if each of the three succeeded.
C21_DryRunInvokesNothing ==
    C21_Ended =>
        /\ dry_run => nb.invoked = <<>>
        /\ (~dry_run /\ nb.status = "returned") =>
              {"target-libdir", "sysroot", "version"} \subseteq rustc_ok

\* C21 amended: in a dry run Build::new does not run the stage0 compiler
\* for --print target-libdir and --print sysroot and takes the dummy paths
\* instead, but it still runs --version --verbose; every invocation it makes,
\* in a dry run or not, must succeed or Build::new aborts.
C21_DryRunSkipsThePrints ==
    C21_Ended =>
        /\ dry_run => Range(nb.invoked) \subseteq {"version"}
        /\ (dry_run /\ nb.status = "returned") =>
              /\ nb.invoked = <<"version">>
              /\ nb.initial_lld = <<"dummy", "lib", "path", "to", "bin", "rust-lld">>
              /\ nb.initial_libdir = <<"lib">>
        /\ (~dry_run /\ nb.status = "returned") =>
              nb.invoked = <<"target-libdir", "sysroot", "version">>
        /\ nb.status = "returned" => Range(nb.invoked) \subseteq rustc_ok
        /\ ~(Range(nb.invoked) \subseteq rustc_ok) => nb.status = "panicked"

C21_Witness ==
    /\ dry_run
    /\ rustc_ok = {"version"}
    /\ nb.status = "returned"
    /\ nb.invoked = <<"version">>
    /\ nb.initial_libdir = <<"lib">>

\* the text up to its second ".", white space left out
RECURSIVE C23_MajorMinor(_, _)
C23_MajorMinor(text, dots) ==
    IF text = <<>> THEN <<>>
    ELSE IF Head(text) \in WhiteSpace THEN C23_MajorMinor(Tail(text), dots)
    ELSE IF Head(text) = "." /\ dots = 1 THEN <<>>
    ELSE <<Head(text)>> \o C23_MajorMinor(Tail(text),
                                           IF Head(text) = "." THEN dots + 1 ELSE dots)

\* the release the stage0 compiler reports: its first "release:" line
C23_LocalRelease ==
    LET i == CHOOSE k \in 1 .. Len(version_out) :
                 /\ Head(version_out[k]) = "release:"
                 /\ \A j \in 1 .. k - 1 : Head(version_out[j]) # "release:"
    IN  Tail(version_out[i])

\* C23: after Build::new, local_rebuild is the configured value or-ed with
\* "the major.minor of the stage0 compiler's release is the major.minor of
\* the version being built".
C23_LocalRebuild ==
    nb.status = "returned" =>
        nb.local_rebuild =
            (\/ cfg_local_rebuild
             \/ C23_MajorMinor(C23_LocalRelease, 0) = C23_MajorMinor(version_file[1], 0))

C23_Witness ==
    /\ nb.status = "returned"
    /\ ~cfg_local_rebuild
    /\ nb.local_rebuild
    /\ version_file = << <<"1", ".", "50", "\n">> >>
    /\ C23_LocalRelease = <<" ", "1", ".", "50", ".", "1">>

\* the flag that maps the source directory to the destination C22 names
C22_RemapFlag(which) ==
    <<"-fdebug-prefix-map=", SrcDisplay, "=">>
        \o (IF which = "Llvm" THEN <<"/rustc/llvm">>
            ELSE <<"/rustc/", IF rust_sha # <<>> THEN rust_sha[1] ELSE version_str>>)

\* the flags of the result that remap a debug-info path
C22_Remaps == {i \in 1 .. Len(fq.val) : Head(fq.val[i]) = "-fdebug-prefix-map="}

\* C22 as stated: when debug-info remapping is configured, cflags(target,
\* which) holds the flag that maps the source directory to /rustc/<sha or
\* version> (Rustc) or /rustc/llvm (Llvm), for every target; when it is not
\* configured the result holds no such flag.
C22_RemapFlagForEveryTarget ==
    fq.status = "returned" =>
        /\ rust_remap_debuginfo =>
              \E i \in 1 .. Len(fq.val) : fq.val[i] = C22_RemapFlag(fq.which)
        /\ ~rust_remap_debuginfo => C22_Remaps = {}

\* C22 amended: the flag is added only when the file name of the target's
\* C compiler is clang or gcc (the flag is the last flag) or clang-cl.exe
\* (the flag is the last flag and follows -Xclang); for a C compiler of any
\* other name, and when remapping is not configured, no such flag is added.
C22_RemapFlagForKnownCompilers ==
    fq.status = "returned" =>
        LET name == cc_tools[fq.target].path[Len(cc_tools[fq.target].path)]
            n == Len(fq.val)
        IN  /\ (rust_remap_debuginfo /\ name \in {"clang", "gcc"}) =>
                  /\ C22_Remaps = {n}
                  /\ fq.val[n] = C22_RemapFlag(fq.which)
                  /\ \A i \in 1 .. n : fq.val[i] # <<"-Xclang">>
            /\ (rust_remap_debuginfo /\ name = "clang-cl.exe") =>
                  /\ C22_Remaps = {n}
                  /\ fq.val[n] = C22_RemapFlag(fq.which)
                  /\ fq.val[n - 1] = <<"-Xclang">>
            /\ (~rust_remap_debuginfo \/ name \notin {"clang", "gcc", "clang-cl.exe"}) =>
                  C22_Remaps = {}

C22_Witness ==
    /\ fq.status = "returned"
    /\ rust_remap_debuginfo
    /\ rust_sha = <<>>
    /\ version_str = "1.50.0"
    /\ fq.which = "Rustc"
    /\ fq.target = AppleDarwin
    /\ cc_tools[AppleDarwin] = [path |-> <<"clang-cl.exe">>,
                                args |-> << <<"-O", "2">>, <<"-fPIC">> >>]
    /\ fq.val = << <<"-fPIC">>, <<"-stdlib=libc++">>, <<"-Xclang">>,
                   <<"-fdebug-prefix-map=", "/checkout", "=", "/rustc/", "1.50.0">> >>

\* C24: the list in_tree_crates returns holds each crate at most once,
\* also when a dependency cycle leads back to the root.
C24_NoCrateTwice ==
    ipc = "done" => \A i, j \in 1 .. Len(ret) : ret[i] = ret[j] => i = j

\* C25: in_tree_crates terminates on every crate graph, cycles and
\* self-dependencies included: once the loop is entered the function
\* returns, and the crates reported never outnumber the crates of the map
\* by more than the root, since a name is pushed as a dependency at most
\* once.
C25_Terminates ==
    /\ [](Len(ret) + Len(list) <= Cardinality(DOMAIN crates) + 1)
    /\ (ipc = "loop") ~> (ipc = "done")

C25_Witness ==
    /\ ipc = "done"
    /\ it_root = "root"
    /\ crates["root"] = {"a", "b"}
    /\ crates["a"] = {"a", "c"}
    /\ crates["c"] = {"root"}
    /\ crates["b"] = {"c"}
    /\ Len(ret) = 5

\* C26: when copy(src, dst) aborts because src does not exist (dry-run off,
\* src other than dst), it leaves the filesystem as it was: a file that was
\* at dst is still there.
C26_FailedCopyChangesNothing ==
    (/\ ~dry_run
     /\ fpc = "panicked"
     /\ last.call.op = "copy"
     /\ last.call.src # last.call.dst
     /\ kind(pre_fs, last.call.src) = "none") => fs = pre_fs

\* cp_r and cp_filtered have both been run on the tree pre_fs, dry-run off
C27_Run == ~dry_run /\ other.status # "none"

\* q, under the dst of the call, has a counterpart in src
C27_InSrc(q) ==
    kind(pre_fs, last.call.src \o SubSeq(q, Len(last.call.dst) + 1, Len(q))) # "none"

\* q lies inside a directory of dst, below the one the call was made on,
\* whose counterpart in src is a directory
C27_InsideMirrored(q) ==
    \E a \in Paths :
        /\ IsUnder(a, last.call.dst)
        /\ IsUnder(q, a)
        /\ kind(pre_fs, last.call.src \o SubSeq(a, Len(last.call.dst) + 1, Len(a))) = "dir"

C28_CalledAgain == fpc \in {"returned again", "panicked again"}

====
